---------------------------- MODULE Spec2Model ----------------------------
(***************************************************************************)
(* Model of the obsrv monitoring pipeline: the scheduled crawl             *)
(* orchestrator, the baseline crawler, the change detector, the webhook    *)
(* delivery function with its retry loop, the webhook signer and verifier, *)
(* the rotation of webhook secrets, the fetcher with its rate limiter and  *)
(* product discovery.                                                      *)
(*                                                                         *)
(* Conventions.                                                            *)
(*  - Time is counted in seconds (the variable now).                       *)
(*  - Prices are exact decimal amounts counted in their smallest unit,     *)
(*    whatever Python type (float, Decimal) carries them; thresholds are   *)
(*    counted in hundredths of a percent (1.00 % = 100).                   *)
(*  - NULL stands for Python's None / SQL NULL in integer-valued fields.   *)
(*  - The database is taken to store and return what the code writes; the  *)
(*    model follows the control flow and the data logic of the handlers.   *)
(***************************************************************************)
EXTENDS Integers, Sequences, FiniteSets, TLC

NULL == -1

(***************************************************************************)
(* Bounds of the model.                                                    *)
(***************************************************************************)
\* largest clock value the model explores
MaxTime == 2200
\* largest number of query parameters of a URL given to normalize_url
MaxParams == 2

(***************************************************************************)
(* Program constants.                                                      *)
(***************************************************************************)
\* WebhookDeliveryService.DELIVERY_TIMEOUT (seconds)
DELIVERY_TIMEOUT == 10
\* WebhookDeliveryService.RETRY_SCHEDULE (minutes); the Python list is
\* 0-indexed, so RETRY_SCHEDULE[k] of the code is RETRY_SCHEDULE[k + 1] here
RETRY_SCHEDULE == <<0, 5, 30>>
\* WebhookDeliveryService.MAX_ATTEMPTS
MAX_ATTEMPTS == 3
\* WebhookSecurity.TOLERANCE_WINDOW (seconds)
TOLERANCE_WINDOW == 300
\* settings.DEFAULT_CRAWL_TIMEOUT (seconds)
DEFAULT_CRAWL_TIMEOUT == 30
\* settings.CRAWL_RATE_LIMIT_PER_DOMAIN (requests per minute)
CRAWL_RATE_LIMIT_PER_DOMAIN == 10
\* settings.CRAWL_RETRY_ATTEMPTS
CRAWL_RETRY_ATTEMPTS == 3
\* settings.CRAWL_RETRY_BACKOFF_BASE (seconds)
CRAWL_RETRY_BACKOFF_BASE == 60

VARIABLES
    now,            \* wall clock (datetime.utcnow / time.time), seconds
    webhook_queue,  \* webhook.deliver events sent to the workflow engine
    delivery,       \* per event: the run of deliver_webhook_function
    webhook_logs,   \* table webhook_delivery_logs, in commit order
    client,         \* the row of table clients that owns the websites
    websites,       \* table monitored_websites, by id
    products,       \* table products; a product's id is its index
    history,        \* table product_history; a record's id is its index
    crawl_logs,     \* table crawl_execution_logs; a log's id is its index
    tick,           \* scheduled_crawl_function: the website ids still to crawl
    job,            \* process_scheduled_crawl: the website job in progress
    requests,       \* number of management API requests handled so far
    detIn,          \* arguments of a call of _detect_price_change
    detOut,         \* its result
    sigIn,          \* a signed request and the receiver that verifies it
    sigOut,         \* the outcome of the verification
    fetches,        \* per task of the event loop: its call of crawl_url
    domain_last_request,  \* the module's map domain -> time of last request
    disIn,          \* arguments of a call of discover_products
    disOut,         \* its result
    urlIn,          \* the argument of a call of normalize_url
    urlOut          \* its result

deliveryVars == <<now, webhook_queue, delivery, webhook_logs>>
storeVars == <<client, websites, products, history, crawl_logs>>
crawlVars == <<tick, job, requests>>
detectVars == <<detIn, detOut>>
signVars == <<sigIn, sigOut>>
fetchVars == <<fetches, domain_last_request>>
discoverVars == <<disIn, disOut>>
urlVars == <<urlIn, urlOut>>
vars == <<now, webhook_queue, delivery, webhook_logs, client, websites,
          products, history, crawl_logs, tick, job, requests, detIn, detOut,
          sigIn, sigOut, fetches, domain_last_request, disIn, disOut,
          urlIn, urlOut>>

-----------------------------------------------------------------------------
(***************************************************************************)
(* Webhook signatures                                                      *)
(***************************************************************************)

Abs(x) == IF x < 0 THEN -x ELSE x

\* The clock of the signer and of the receiver is counted in half seconds
\* here, so that int(time.time()) has a fraction to drop.
IntTime(clock) == clock \div 2

\* hmac.new(key, message, hashlib.sha256).hexdigest(), taken to be free of
\* collisions: the digest determines the key and the message.
HmacSha256(key, message) == <<"hmac-sha256", key, message>>

\* f"{timestamp}.{payload}"
SignedPayload(timestamp, payload) == <<timestamp, payload>>

\* generate_signature: the header "t=<timestamp>,v1=<signature>" as its
\* comma separated items, and the timestamp used.
generate_signature(payload, webhook_secret, timestamp, clock) ==
    LET ts == IF timestamp = NULL THEN IntTime(clock) ELSE timestamp
        signature == HmacSha256(webhook_secret, SignedPayload(ts, payload))
    IN  [signature_header |-> <<[key |-> "t", value |-> ts],
                                [key |-> "v1", value |-> signature]>>,
         timestamp |-> ts]

\* parts.get(key) of a key the header does not have
MissingPart == <<>>

\* dict(item.split("=", 1) for item in header.split(",")).get(key): the
\* last item with the key wins. A value found is returned as <<value>>.
HeaderPart(signature_header, key) ==
    LET at == {i \in DOMAIN signature_header : signature_header[i].key = key}
    IN  IF at = {} THEN MissingPart
        ELSE <<signature_header[CHOOSE i \in at : \A j \in at : j <= i].value>>

\* A variant whose window excludes its boundary.
OutsideToleranceAtBoundary(time_diff) == time_diff >= TOLERANCE_WINDOW

\* time_diff > TOLERANCE_WINDOW
OutsideTolerance(time_diff) == time_diff > TOLERANCE_WINDOW

\* verify_signature: the header is parsed, then the timestamp is compared
\* with the receiver's clock, and only then the signature is compared.
verify_signature(payload, signature_header, webhook_secret, clock) ==
    LET timestamp_str == HeaderPart(signature_header, "t")
        received_signature == HeaderPart(signature_header, "v1")
        timestamp == timestamp_str[1]
        current_time == IntTime(clock)
        time_diff == Abs(current_time - timestamp)
        expected_signature ==
            HmacSha256(webhook_secret, SignedPayload(timestamp, payload))
    IN  IF timestamp_str = MissingPart \/ received_signature = MissingPart
        THEN [is_valid |-> FALSE, error |-> "malformed"]
        ELSE IF OutsideTolerance(time_diff)
        THEN [is_valid |-> FALSE, error |-> "timestamp"]
        ELSE IF expected_signature # received_signature[1]
        THEN [is_valid |-> FALSE, error |-> "signature"]
        ELSE [is_valid |-> TRUE, error |-> "none"]

\* previous_secret = None
NoSecret == NULL

\* A variant that never tries the previous secret.
verify_signature_with_rotationCurrentOnly(payload, signature_header, current_secret, previous_secret, clock, lag) ==
    verify_signature(payload, signature_header, current_secret, clock)

\* verify_signature_with_rotation: the current secret first, then the
\* previous one if there is one ("if previous_secret:"). Each verification
\* reads the clock; lag is the time between the two readings.
verify_signature_with_rotation(payload, signature_header, current_secret, previous_secret, clock, lag) ==
    LET first == verify_signature(payload, signature_header, current_secret,
                                  clock)
        second == verify_signature(payload, signature_header, previous_secret,
                                   clock + lag)
    IN  IF first.is_valid THEN [is_valid |-> TRUE, error |-> "none"]
        ELSE IF previous_secret # NoSecret /\ second.is_valid
        THEN [is_valid |-> TRUE, error |-> "none"]
        ELSE IF previous_secret # NoSecret
        THEN [is_valid |-> FALSE, error |-> second.error]
        ELSE [is_valid |-> FALSE, error |-> first.error]

(***************************************************************************)
(* Webhook delivery                                                        *)
(***************************************************************************)

EventTypes == {"product.price_changed", "product.stock_changed"}

\* What the endpoint (or the transport) answers to one POST.
HttpOutcomes ==
    {[kind |-> "response", code |-> c] : c \in {200, 301, 503}}
    \cup {[kind |-> k, code |-> NULL] :
              k \in {"timeout", "request_error", "unexpected"}}

\* Steps by which the clock advances while no HTTP exchange bounds it.
IdleSteps == {300, 1800}

\* The classification of deliver_webhook: status "success" on 2xx, "failed"
\* otherwise (non-2xx response or any exception of the POST).
AttemptStatus(outcome) ==
    IF outcome.kind = "response" /\ 200 <= outcome.code /\ outcome.code < 300
    THEN "success"
    ELSE "failed"

\* http_status_code stays None unless a response arrived.
HttpStatusCode(outcome) ==
    IF outcome.kind = "response" THEN outcome.code ELSE NULL

\* A variant that schedules a retry after every failed attempt, the last
\* one included.
NextStatusAlwaysRetrying(status, attempt_number) ==
    IF status = "failed" THEN "retrying" ELSE status

\* "Determine next status and retry time" of deliver_webhook.
NextStatus(status, attempt_number) ==
    IF status = "failed"
    THEN IF attempt_number < MAX_ATTEMPTS THEN "retrying" ELSE "exhausted"
    ELSE status

\* A variant that reads the delay of the attempt just made instead of the
\* delay of the next one (RETRY_SCHEDULE indexed one too low).
NextRetryAtCurrentDelay(status, attempt_number, t) ==
    IF status = "failed" /\ attempt_number < MAX_ATTEMPTS
    THEN t + RETRY_SCHEDULE[attempt_number] * 60
    ELSE NULL

\* next_retry_at = utcnow() + RETRY_SCHEDULE[attempt_number] minutes, the
\* list being 0-indexed in the code.
NextRetryAt(status, attempt_number, t) ==
    IF status = "failed" /\ attempt_number < MAX_ATTEMPTS
    THEN t + RETRY_SCHEDULE[attempt_number + 1] * 60
    ELSE NULL

\* The WebhookDeliveryLog row that deliver_webhook builds and commits.
DeliveryLogRow(delivery_id, ev, attempt_number, sent_at, outcome) ==
    [ id                 |-> delivery_id,
      product_history_id |-> ev.product_history_id,
      website_id         |-> ev.website_id,
      event_type         |-> ev.event_type,
      payload            |-> ev.payload,
      attempt_number     |-> attempt_number,
      signature          |-> generate_signature(ev.payload, ev.webhook_secret,
                                                NULL, 2 * sent_at).signature_header,
      timestamp_header   |-> sent_at,
      delivery_timestamp |-> now,
      http_status_code   |-> HttpStatusCode(outcome),
      status             |-> NextStatus(AttemptStatus(outcome), attempt_number),
      next_retry_at      |-> NextRetryAt(AttemptStatus(outcome), attempt_number, now) ]

\* The run of deliver_webhook_function for an event that was just enqueued.
NewDelivery ==
    [pc |-> "triggered", attempt_number |-> 0, sent_at |-> NULL, delivery_id |-> NULL]

\* deserialize-payload: the payload is rebuilt from the event type.
Deserializable(ev) == ev.event_type \in EventTypes

\* deliver_webhook_function up to the first attempt.
DeliverFunctionStart(i) ==
    /\ delivery[i].pc = "triggered"
    /\ delivery' = [delivery EXCEPT ![i] =
          IF Deserializable(webhook_queue[i])
          THEN [NewDelivery EXCEPT !.pc = "send", !.attempt_number = 1]
          ELSE [NewDelivery EXCEPT !.pc = "done"]]
    /\ UNCHANGED <<now, webhook_queue, webhook_logs, storeVars, crawlVars, detectVars, signVars, fetchVars, discoverVars, urlVars>>

\* A variant that numbers the events instead of the calls: every attempt
\* made for the latest event carries the same identifier.
uuid4Repeated == Len(webhook_queue)

\* uuid4(), taken as a value that was never returned before: the number of
\* the call of deliver_webhook among those started so far (each call that
\* returned left one row, each other one is awaiting its POST)
uuid4 ==
    Len(webhook_logs) + Cardinality({j \in DOMAIN delivery : delivery[j].pc = "posting"}) + 1

\* deliver_webhook up to the POST: the delivery id is drawn, the signature is
\* generated with the current time and the request is issued.
DeliverSend(i) ==
    /\ delivery[i].pc = "send"
    /\ delivery' = [delivery EXCEPT ![i].pc = "posting", ![i].sent_at = now,
                                    ![i].delivery_id = uuid4]
    /\ UNCHANGED <<now, webhook_queue, webhook_logs, storeVars, crawlVars, detectVars, signVars, fetchVars, discoverVars, urlVars>>

\* A variant of the loop that does not return on success.
AfterAttemptDroppedSuccessCheck(run, status) ==
    IF run.attempt_number + 1 > MAX_ATTEMPTS
    THEN [run EXCEPT !.pc = "done", !.sent_at = NULL, !.delivery_id = NULL]
    ELSE [run EXCEPT !.pc = "send", !.sent_at = NULL, !.delivery_id = NULL,
                     !.attempt_number = run.attempt_number + 1]

\* The loop of deliver_webhook_with_retry after one attempt returned.
AfterAttempt(run, status) ==
    IF status = "success"
    THEN [run EXCEPT !.pc = "done", !.sent_at = NULL, !.delivery_id = NULL]
    ELSE IF run.attempt_number + 1 > MAX_ATTEMPTS
         THEN [run EXCEPT !.pc = "done", !.sent_at = NULL, !.delivery_id = NULL]
         ELSE [run EXCEPT !.pc = "send", !.sent_at = NULL, !.delivery_id = NULL,
                          !.attempt_number = run.attempt_number + 1]

\* A variant that keeps a row only for attempts that did not succeed.
PersistDeliveryLogUnlessSuccess(logs, row) ==
    IF row.status = "success" THEN logs ELSE Append(logs, row)

\* "Save to database if session provided": the row is added and committed
\* (deliver_webhook_with_retry always passes its session).
PersistDeliveryLog(logs, row) == Append(logs, row)

\* deliver_webhook from the answer of the POST on: classification, the log
\* row and its commit, then the retry loop of deliver_webhook_with_retry.
DeliverFinish(i, outcome) ==
    /\ delivery[i].pc = "posting"
    /\ outcome.kind = "timeout" => now >= delivery[i].sent_at + DELIVERY_TIMEOUT
    /\ LET row == DeliveryLogRow(delivery[i].delivery_id, webhook_queue[i],
                                 delivery[i].attempt_number, delivery[i].sent_at, outcome)
       IN /\ webhook_logs' = PersistDeliveryLog(webhook_logs, row)
          /\ delivery' = [delivery EXCEPT ![i] = AfterAttempt(delivery[i], row.status)]
    /\ UNCHANGED <<now, webhook_queue, storeVars, crawlVars, detectVars, signVars, fetchVars, discoverVars, urlVars>>

\* Time passes while a POST is awaited, at most until the client's timeout.
AwaitResponse ==
    /\ \E i \in DOMAIN delivery : delivery[i].pc = "posting"
    /\ now + DELIVERY_TIMEOUT <= MaxTime
    /\ \A i \in DOMAIN delivery :
          delivery[i].pc = "posting" =>
              now + DELIVERY_TIMEOUT <= delivery[i].sent_at + DELIVERY_TIMEOUT
    /\ now' = now + DELIVERY_TIMEOUT
    /\ UNCHANGED <<webhook_queue, delivery, webhook_logs, storeVars, crawlVars, detectVars, signVars, fetchVars, discoverVars, urlVars>>

\* Time passes while no POST is outstanding (the process is idle or busy
\* elsewhere).
Idle(d) ==
    /\ \A i \in DOMAIN delivery : delivery[i].pc # "posting"
    /\ now + d <= MaxTime
    /\ now' = now + d
    /\ UNCHANGED <<webhook_queue, delivery, webhook_logs, storeVars, crawlVars, detectVars, signVars, fetchVars, discoverVars, urlVars>>

-----------------------------------------------------------------------------
(***************************************************************************)
(* Change detection                                                        *)
(***************************************************************************)

\* Prices a page can show: none, zero and two amounts 25 % / 20 % apart.
Prices == {NULL, 0, 4, 5}
\* Stock statuses a page can show.
StockStatuses == {"in_stock", "out_of_stock"}
\* price_change_threshold_pct values (1.00 %, the default, and 25.00 %).
Thresholds == {100, 2500}

\* A percentage is the exact quotient <<numerator, denominator>>; NullPct is
\* None.  Decimal arithmetic carries 28 significant digits, so comparing the
\* quotient with a two-decimal threshold is exact.
NullPct == <<>>

\* A variant with a strict comparison.
PctAbove(pct, threshold_pct) ==
    Abs(pct[1]) * 100 > threshold_pct * Abs(pct[2])

\* abs(price_change_pct) >= Decimal(str(threshold_pct))
PctAtLeast(pct, threshold_pct) ==
    Abs(pct[1]) * 100 >= threshold_pct * Abs(pct[2])

\* ChangeDetectionService._detect_price_change
detect_price_change(old_price, new_price, threshold_pct) ==
    IF old_price = NULL /\ new_price = NULL
    THEN [price_changed |-> FALSE, price_change_pct |-> NullPct,
          exceeded_threshold |-> FALSE]
    ELSE IF old_price = NULL \/ new_price = NULL
    THEN [price_changed |-> TRUE, price_change_pct |-> NullPct,
          exceeded_threshold |-> TRUE]
    ELSE IF old_price = 0
    THEN [price_changed |-> TRUE, price_change_pct |-> NullPct,
          exceeded_threshold |-> TRUE]
    ELSE LET pct == <<(new_price - old_price) * 100, old_price>>
         IN IF old_price = new_price
            THEN [price_changed |-> FALSE, price_change_pct |-> <<0, 1>>,
                  exceeded_threshold |-> FALSE]
            ELSE [price_changed |-> TRUE, price_change_pct |-> pct,
                  exceeded_threshold |-> PctAtLeast(pct, threshold_pct)]

\* ChangeDetectionService._detect_stock_change
detect_stock_change(old_status, new_status) == old_status # new_status

\* ChangeDetectionService._get_latest_history_record: the index of the
\* product's record with the greatest crawl_timestamp, 0 when it has none.
get_latest_history_record(product_id, hist) ==
    LET own == {k \in DOMAIN hist : hist[k].product_id = product_id}
    IN IF own = {} THEN 0 ELSE CHOOSE k \in own : \A j \in own : j <= k

\* ChangeDetectionResult(product_id=...): the defaults of the constructor.
NoChangeResult(product_id) ==
    [ product_id         |-> product_id,
      price_changed      |-> FALSE,
      stock_changed      |-> FALSE,
      old_price          |-> NULL,
      new_price          |-> NULL,
      price_change_pct   |-> NullPct,
      old_stock_status   |-> "none",
      new_stock_status   |-> "none",
      exceeded_threshold |-> FALSE ]

\* A variant that compares a product without history against an empty
\* record instead of returning "no changes".
detect_changesAgainstNoPrice(product, website, hist) ==
    LET k == get_latest_history_record(product.id, hist)
        pr == detect_price_change(IF k = 0 THEN NULL ELSE hist[k].price,
                                  product.current_price,
                                  website.price_change_threshold_pct)
    IN [ product_id         |-> product.id,
         price_changed      |-> pr.price_changed,
         stock_changed      |-> k # 0 /\ detect_stock_change(hist[k].stock_status,
                                                             product.current_stock_status),
         old_price          |-> IF k = 0 THEN NULL ELSE hist[k].price,
         new_price          |-> product.current_price,
         price_change_pct   |-> pr.price_change_pct,
         old_stock_status   |-> IF k = 0 THEN "none" ELSE hist[k].stock_status,
         new_stock_status   |-> product.current_stock_status,
         exceeded_threshold |-> pr.exceeded_threshold ]

\* ChangeDetectionService.detect_changes
detect_changes(product, website, hist) ==
    LET k == get_latest_history_record(product.id, hist)
    IN IF k = 0
       THEN NoChangeResult(product.id)
       ELSE LET previous_record == hist[k]
                pr == detect_price_change(previous_record.price,
                                          product.current_price,
                                          website.price_change_threshold_pct)
            IN [ product_id         |-> product.id,
                 price_changed      |-> pr.price_changed,
                 stock_changed      |-> detect_stock_change(previous_record.stock_status,
                                                            product.current_stock_status),
                 old_price          |-> previous_record.price,
                 new_price          |-> product.current_price,
                 price_change_pct   |-> pr.price_change_pct,
                 old_stock_status   |-> previous_record.stock_status,
                 new_stock_status   |-> product.current_stock_status,
                 exceeded_threshold |-> pr.exceeded_threshold ]

\* ChangeDetectionResult.has_changes
has_changes(change_result) ==
    change_result.price_changed \/ change_result.stock_changed

\* The column price_change_pct is Numeric(6, 2): the quotient is stored
\* rounded to hundredths, <<v>> for a value and <<>> for NULL.
StoredPct(pct) ==
    IF pct = NullPct
    THEN <<>>
    ELSE LET n == Abs(pct[1]) * 100
             d == Abs(pct[2])
             q == (2 * n + d) \div (2 * d)
         IN IF (pct[1] < 0) # (pct[2] < 0) THEN <<-q>> ELSE <<q>>

-----------------------------------------------------------------------------
(***************************************************************************)
(* Webhook emission                                                        *)
(***************************************************************************)

\* PriceChangeEvent(...) of trigger_webhook_for_change, as dumped to JSON.
PriceChangeEvent(change_result, history_record_id) ==
    [ event_type |-> "product.price_changed",
      event_id   |-> history_record_id,
      change     |-> [ type            |-> "price",
                       old_value       |-> change_result.old_price,
                       new_value       |-> change_result.new_price,
                       change_pct      |-> change_result.price_change_pct,
                       absolute_change |->
                           IF change_result.new_price \notin {NULL, 0}
                              /\ change_result.old_price \notin {NULL, 0}
                           THEN change_result.new_price - change_result.old_price
                           ELSE 0 ] ]

\* A variant that takes the id of the event from somewhere else than the
\* history record.
StockChangeEventOtherId(change_result, history_record_id) ==
    [ event_type |-> "product.stock_changed",
      event_id   |-> history_record_id + 100,
      change     |-> [ type      |-> "stock",
                       old_value |-> change_result.old_stock_status,
                       new_value |-> change_result.new_stock_status ] ]

\* StockChangeEvent(...) of trigger_webhook_for_change, as dumped to JSON.
StockChangeEvent(change_result, history_record_id) ==
    [ event_type |-> "product.stock_changed",
      event_id   |-> history_record_id,
      change     |-> [ type      |-> "stock",
                       old_value |-> change_result.old_stock_status,
                       new_value |-> change_result.new_stock_status ] ]

\* The data of the webhook.deliver event handed to send_event.
WebhookDeliverEvent(website_id, website, cl, history_record_id, event) ==
    [ website_id         |-> website_id,
      product_history_id |-> history_record_id,
      target_url         |-> website.webhook_endpoint_url,
      webhook_secret     |-> cl.webhook_secret_current,
      payload            |-> event,
      event_type         |-> event.event_type ]

\* PriceChangeDetails declares change_pct as a required Decimal: building
\* the price event with change_pct = None raises a validation error.
PriceChangeDetailsValid(change_result) ==
    change_result.price_change_pct # NullPct

\* trigger_webhook_for_change: raised tells whether it raised, sent is the
\* list of events it handed to send_event.  The stock event, when built,
\* replaces the price event in the local variable event.
trigger_webhook_for_change(change_result, website_id, website, cl, history_record_id) ==
    LET price_branch == change_result.price_changed /\ change_result.exceeded_threshold
        stock_branch == change_result.stock_changed
    IN IF price_branch /\ ~PriceChangeDetailsValid(change_result)
       THEN [raised |-> TRUE, sent |-> <<>>]
       ELSE LET event == IF stock_branch
                         THEN StockChangeEvent(change_result, history_record_id)
                         ELSE PriceChangeEvent(change_result, history_record_id)
                event_id == IF price_branch \/ stock_branch
                            THEN history_record_id
                            ELSE NULL
            IN [raised |-> FALSE,
                sent   |-> IF event_id # NULL
                           THEN <<WebhookDeliverEvent(website_id, website, cl,
                                                      history_record_id, event)>>
                           ELSE <<>>]

-----------------------------------------------------------------------------
(***************************************************************************)
(* Websites, products and the baseline crawl                               *)
(***************************************************************************)

\* scheduled crawl logs opened at most where the website's status is followed
MaxCrawls == 3
\* scheduled crawl logs opened at most where the product's changes are followed
MaxChangeCrawls == 2
\* management API requests (settings updates, approvals) the model handles
MaxRequests == 2

WebsiteIds == {1}
\* product URLs a client can approve
Urls == {"https://shop.example/p/1", "https://shop.example/p/2"}
WebhookEndpoint == "https://hooks.example/obsrv"
NoUrl == "none"

\* the elements of a finite set of integers in increasing order
RECURSIVE SortedSeq(_)
SortedSeq(S) ==
    IF S = {} THEN <<>>
    ELSE LET m == CHOOSE x \in S : \A y \in S : x <= y
         IN <<m>> \o SortedSeq(S \ {m})

\* the elements of a set of URLs as a list, in a fixed order
RECURSIVE UrlList(_)
UrlList(S) ==
    IF S = {} THEN <<>>
    ELSE LET u == CHOOSE x \in S : \A y \in S :
                      (x = "https://shop.example/p/1") \/ (y # "https://shop.example/p/1")
         IN <<u>> \o UrlList(S \ {u})

\* WebsiteService.register_website: the row of a newly registered website.
RegisteredWebsite(webhook_endpoint_url) ==
    [ status                     |-> "pending_approval",
      price_change_threshold_pct |-> 100,
      webhook_endpoint_url       |-> webhook_endpoint_url,
      webhook_enabled            |-> TRUE,
      approved_product_count     |-> 0,
      last_crawl_status          |-> "none",
      consecutive_failures       |-> 0 ]

\* settings.ENVIRONMENT of the deployment the model describes
ENVIRONMENT == "production"

\* An endpoint reached over plain HTTP.
HttpEndpoint == "http://hooks.example/obsrv"

\* _validate_webhook_endpoint, for the well-formed URLs above: in production
\* the URL must start with "https://".
validate_webhook_endpoint(webhook_url) ==
    ~(ENVIRONMENT = "production" /\ webhook_url = HttpEndpoint)

\* WebsiteService.update_website: every given value that is not None is set.
UpdateWebsite(w, keys, threshold, enabled, endpoint) ==
    /\ keys # {}
    /\ websites' = [websites EXCEPT ![w] =
          [@ EXCEPT !.price_change_threshold_pct =
                        IF "price_change_threshold_pct" \in keys THEN threshold ELSE @,
                    !.webhook_enabled =
                        IF "webhook_enabled" \in keys THEN enabled ELSE @,
                    !.webhook_endpoint_url =
                        IF "webhook_endpoint_url" \in keys THEN endpoint ELSE @]]
    /\ websites' # websites
    /\ requests < MaxRequests
    /\ requests' = requests + 1
    /\ UNCHANGED <<client, products, history, crawl_logs>>
    /\ UNCHANGED <<deliveryVars, tick, job, detectVars, signVars, fetchVars, discoverVars, urlVars>>

UpdateKeys == {"price_change_threshold_pct", "webhook_enabled", "webhook_endpoint_url"}

\* What crawler_service.crawl_product yields for one URL at approval time.
BaselineOutcomes ==
    {[kind |-> "error", price |-> NULL, stock_status |-> "unknown"],
     [kind |-> "ok", price |-> 5, stock_status |-> "in_stock"]}

\* A page that stays as it was at approval time, or a CrawlError.
StatusOutcomes ==
    {[kind |-> "error", price |-> NULL, stock_status |-> "unknown"],
     [kind |-> "ok", price |-> 5, stock_status |-> "in_stock"]}

\* What crawler_service.crawl_product yields for one URL: the parsed page,
\* or a CrawlError.
CrawlOutcomes ==
    {[kind |-> "error", price |-> NULL, stock_status |-> "unknown"]}
    \cup {[kind |-> "ok", price |-> p, stock_status |-> s] :
              p \in Prices, s \in StockStatuses}

\* CrawlExecutionLog(website_id, status="running", triggered_by=...)
NewCrawlLog(w, triggered_by) ==
    [ website_id         |-> w,
      status             |-> "running",
      triggered_by       |-> triggered_by,
      products_processed |-> 0,
      changes_detected   |-> 0,
      errors_count       |-> 0,
      error_details      |-> <<>>,
      completed          |-> FALSE ]

\* A link to the first product page that carries a tracking parameter.
TrackedUrl == "https://shop.example/p/1?utm_source=mail"

\* normalize_url on the URLs above, which are lower-case, without port,
\* fragment or trailing slash: the parameters of TRACKING_PARAMS are dropped
\* from the query, the rest of the URL is kept.
normalize_url(url) ==
    IF url = TrackedUrl THEN "https://shop.example/p/1" ELSE url

\* Product(...) of crawl_approved_products
NewProduct(id, w, url, outcome) ==
    [ id                   |-> id,
      website_id           |-> w,
      original_url         |-> url,
      normalized_url       |-> normalize_url(url),
      current_price        |-> outcome.price,
      current_stock_status |-> outcome.stock_status,
      is_active            |-> TRUE,
      delisted_at          |-> NULL ]

\* the products crawl_approved_products creates for its URL list
RECURSIVE CreatedProducts(_, _, _, _)
CreatedProducts(w, urls, outcomes, next_id) ==
    IF urls = <<>> THEN <<>>
    ELSE IF outcomes[Head(urls)].kind = "ok"
         THEN <<NewProduct(next_id, w, Head(urls), outcomes[Head(urls)])>>
              \o CreatedProducts(w, Tail(urls), outcomes, next_id + 1)
         ELSE CreatedProducts(w, Tail(urls), outcomes, next_id)

\* the unique index products(website_id, normalized_url)
UniqueViolation(existing, created) ==
    \/ \E i \in DOMAIN existing, j \in DOMAIN created :
          /\ existing[i].website_id = created[j].website_id
          /\ existing[i].normalized_url = created[j].normalized_url
    \/ \E i, j \in DOMAIN created :
          /\ i # j
          /\ created[i].website_id = created[j].website_id
          /\ created[i].normalized_url = created[j].normalized_url

NumLogs(triggered_by) ==
    Cardinality({k \in DOMAIN crawl_logs : crawl_logs[k].triggered_by = triggered_by})

\* "Cannot approve more than 100 products": the longest list approve_products
\* accepts.
APPROVAL_LIMIT == 100

\* WebsiteService.approve_products followed by baseline_crawl_function and
\* BaselineCrawlService.crawl_approved_products for the approved URLs.
BaselineCrawl(w, urlset, outcomes) ==
    /\ urlset # {}
    /\ Cardinality(urlset) <= APPROVAL_LIMIT
    /\ requests < MaxRequests
    /\ requests' = requests + 1
    /\ LET created == CreatedProducts(w, UrlList(urlset), outcomes, Len(products) + 1)
           errors  == {u \in urlset : outcomes[u].kind # "ok"}
           log     == NewCrawlLog(w, "discovery")
       IN IF UniqueViolation(products, created)
          THEN \* the commit of the products raises: the log is closed as
               \* failed and the error is re-raised
               /\ crawl_logs' = Append(crawl_logs,
                      [log EXCEPT !.status = "failed", !.completed = TRUE])
               /\ UNCHANGED <<websites, products>>
          ELSE /\ products' = products \o created
               /\ crawl_logs' = Append(crawl_logs,
                      [log EXCEPT !.status = IF errors = {} THEN "success"
                                             ELSE "partial_success",
                                  !.products_processed = Len(created),
                                  !.errors_count = Cardinality(errors),
                                  !.error_details =
                                      [i \in DOMAIN UrlList(errors) |->
                                          [product_url |-> UrlList(errors)[i]]],
                                  !.completed = TRUE])
               /\ websites' = [websites EXCEPT
                      ![w].status = "active",
                      ![w].approved_product_count = Len(created),
                      ![w].last_crawl_status = "success"]
    /\ UNCHANGED <<client, history>>
    /\ UNCHANGED <<deliveryVars, tick, job, detectVars, signVars, fetchVars, discoverVars, urlVars>>

-----------------------------------------------------------------------------
\* POST /v1/auth/webhook-secret: the current secret becomes the previous
\* one, a fresh token becomes the current one, and the previous one is given
\* an hour. The tokens are numbered in the order of their generation.
RotateWebhookSecret(maxRotations) ==
    /\ client.webhook_secret_current <= maxRotations
    /\ client' = [webhook_secret_current |-> client.webhook_secret_current + 1,
                  webhook_secret_previous |-> client.webhook_secret_current,
                  secret_rotation_expires_at |-> now + 3600]
    /\ UNCHANGED <<websites, products, history, crawl_logs, crawlVars,
                   deliveryVars, detectVars, signVars, fetchVars, discoverVars, urlVars>>

\* Time passes until the hour given to the previous secret is over.
GracePeriodElapses ==
    /\ client.secret_rotation_expires_at # NULL
    /\ now <= client.secret_rotation_expires_at
    /\ now' = client.secret_rotation_expires_at + 1
    /\ UNCHANGED <<webhook_queue, delivery, webhook_logs, storeVars, crawlVars,
                   detectVars, signVars, fetchVars, discoverVars, urlVars>>

(***************************************************************************)
(* The scheduled crawl                                                     *)
(***************************************************************************)

NoJob ==
    [ pc                 |-> "idle",
      website_id         |-> 0,
      website            |-> RegisteredWebsite(NoUrl),
      client             |-> [webhook_secret_current |-> 0],
      crawl_log_id       |-> 0,
      todo               |-> <<>>,
      products_processed |-> 0,
      changes_detected   |-> 0,
      errors_count       |-> 0,
      error_details      |-> <<>>,
      product_updates    |-> <<>>,
      new_history        |-> <<>> ]

\* fetch-active-websites: select(MonitoredWebsite).where(status == "active")
ActiveWebsites ==
    {w \in DOMAIN websites : websites[w].status = "active"}

\* scheduled_crawl_function, step 1: the cron tick fetches the ids of the
\* active websites.
FetchActiveWebsites(maxCrawls) ==
    /\ tick = <<>>
    /\ job.pc = "idle"
    /\ ActiveWebsites # {}
    /\ NumLogs("scheduled") + Cardinality(ActiveWebsites) <= maxCrawls
    /\ tick' = SortedSeq(ActiveWebsites)
    /\ UNCHANGED <<job, requests, storeVars, deliveryVars, detectVars, signVars, fetchVars, discoverVars, urlVars>>

\* process_scheduled_crawl: the website is loaded only if it is active.
LoadableForCrawl(website) == website.status = "active"

\* select(Product).where(website_id == ..., is_active == True)
ActiveProducts(w) ==
    SortedSeq({k \in DOMAIN products :
                  products[k].website_id = w /\ products[k].is_active})

\* scheduled_crawl_function, step 2, and process_scheduled_crawl up to the
\* product loop: load the website and the client, open the crawl log, load
\* the active products; with no product the log is closed at once.
CrawlWebsite ==
    /\ tick # <<>>
    /\ job.pc = "idle"
    /\ tick' = Tail(tick)
    /\ LET w == Head(tick)
       IN IF ~LoadableForCrawl(websites[w])
          THEN UNCHANGED <<job, crawl_logs>>
          ELSE IF ActiveProducts(w) = <<>>
          THEN /\ crawl_logs' = Append(crawl_logs,
                      [NewCrawlLog(w, "scheduled") EXCEPT
                           !.status = "success", !.completed = TRUE])
               /\ UNCHANGED job
          ELSE /\ crawl_logs' = Append(crawl_logs, NewCrawlLog(w, "scheduled"))
               /\ job' = [NoJob EXCEPT
                      !.pc = "products",
                      !.website_id = w,
                      !.website = websites[w],
                      !.client = client,
                      !.crawl_log_id = Len(crawl_logs) + 1,
                      !.todo = ActiveProducts(w)]
    /\ UNCHANGED <<client, websites, products, history, requests>>
    /\ UNCHANGED <<deliveryVars, detectVars, signVars, fetchVars, discoverVars, urlVars>>

\* ProductHistoryRecord(...) of process_scheduled_crawl
HistoryRecord(product, w, crawl_log_id, change_result) ==
    [ product_id       |-> product.id,
      website_id       |-> w,
      crawl_log_id     |-> crawl_log_id,
      price            |-> product.current_price,
      stock_status     |-> product.current_stock_status,
      price_changed    |-> change_result.price_changed,
      stock_changed    |-> change_result.stock_changed,
      price_change_pct |-> StoredPct(change_result.price_change_pct) ]

\* A variant that does not look at webhook_enabled.
WebhookWantedWhateverEnabled(change_result, website) ==
    /\ has_changes(change_result)
    /\ website.webhook_endpoint_url # NoUrl

\* "If changes detected and webhook enabled, trigger webhook"
WebhookWanted(change_result, website) ==
    /\ has_changes(change_result)
    /\ website.webhook_enabled
    /\ website.webhook_endpoint_url # NoUrl

\* A variant that counts the error and keeps no detail of it.
CountErrorNoDetail(j, product) == [j EXCEPT !.errors_count = @ + 1]

\* errors_count += 1; error_details.append({...}), in the else branch and in
\* the except clause of the product loop.
CountError(j, product) ==
    [j EXCEPT !.errors_count = @ + 1,
              !.error_details = Append(@, [product_id  |-> product.id,
                                           product_url |-> product.original_url])]

\* process_scheduled_crawl, one pass of the product loop: crawl the product,
\* update it, detect changes, add the history record, trigger the webhook;
\* any exception counts one error.
CrawlProduct(outcome) ==
    /\ job.pc = "products"
    /\ job.todo # <<>>
    /\ LET pid  == Head(job.todo)
           w    == job.website_id
           view == history \o job.new_history
       IN IF outcome.kind = "error"
          THEN /\ job' = CountError([job EXCEPT !.todo = Tail(@)], products[pid])
               /\ UNCHANGED <<webhook_queue, delivery>>
          ELSE IF outcome.kind = "detection_error"
          THEN \* detect_changes raises after the product's fields were set:
               \* the except clause counts the error, the product stays
               \* modified in the session and no history record is added
               /\ job' = CountError(
                      [job EXCEPT
                          !.todo = Tail(@),
                          !.product_updates = Append(@,
                              [products[pid] EXCEPT
                                  !.current_price = outcome.price,
                                  !.current_stock_status = outcome.stock_status])],
                      products[pid])
               /\ UNCHANGED <<webhook_queue, delivery>>
          ELSE /\ LET product == [products[pid] EXCEPT
                                     !.current_price = outcome.price,
                                     !.current_stock_status = outcome.stock_status]
                      change_result == detect_changes(product, job.website, view)
                      history_record_id == Len(view) + 1
                      history_record == HistoryRecord(product, w, job.crawl_log_id,
                                                      change_result)
                      triggered == trigger_webhook_for_change(change_result, w,
                                       job.website, job.client, history_record_id)
                      stored == [job EXCEPT
                                    !.todo = Tail(@),
                                    !.product_updates = Append(@, product),
                                    !.new_history = Append(@, history_record)]
                  IN IF ~WebhookWanted(change_result, job.website)
                     THEN /\ job' = [stored EXCEPT !.products_processed = @ + 1]
                          /\ UNCHANGED <<webhook_queue, delivery>>
                     ELSE IF triggered.raised
                     THEN /\ job' = CountError(stored, product)
                          /\ UNCHANGED <<webhook_queue, delivery>>
                     ELSE /\ job' = [stored EXCEPT !.products_processed = @ + 1,
                                                   !.changes_detected = @ + 1]
                          /\ webhook_queue' = webhook_queue \o triggered.sent
                          /\ delivery' = delivery \o
                                 [i \in DOMAIN triggered.sent |-> NewDelivery]
    /\ UNCHANGED <<now, webhook_logs, storeVars, tick, requests, detectVars, signVars, fetchVars, discoverVars, urlVars>>

\* A variant in which the error of a website job ends the tick.
RemainingAfterErrorRaised(remaining) == <<>>

\* process_scheduled_crawl returns {"error": str(e)} from its outer except
\* clause: the step returns and the loop over the websites goes on.
RemainingAfterError(remaining) == remaining

\* process_scheduled_crawl ends with an unexpected error outside the product
\* loop's try block (the session fails, the final commit raises): the
\* session is closed without commit, so what the job had not committed is
\* lost and its crawl log stays as committed at the start.
CrawlAborted ==
    /\ job.pc = "products"
    /\ job' = NoJob
    /\ tick' = RemainingAfterError(tick)
    /\ UNCHANGED <<requests, storeVars, deliveryVars, detectVars, signVars, fetchVars, discoverVars, urlVars>>

\* A variant with the two non-success statuses exchanged.
FinalStatusSwapped(errors_count, products_processed) ==
    IF errors_count = 0 THEN "success"
    ELSE IF products_processed > 0 THEN "failed"
    ELSE "partial_success"

\* "Determine final status"
FinalStatus(errors_count, products_processed) ==
    IF errors_count = 0 THEN "success"
    ELSE IF products_processed > 0 THEN "partial_success"
    ELSE "failed"

\* A variant in which a partial success leaves the counter as it is.
FailuresAfterNoReset(status, consecutive_failures) ==
    IF status = "failed" THEN consecutive_failures + 1
    ELSE IF status = "success" THEN 0 ELSE consecutive_failures

\* "if crawl_log.status == 'failed': consecutive_failures += 1, else 0"
FailuresAfter(status, consecutive_failures) ==
    IF status = "failed" THEN consecutive_failures + 1 ELSE 0

\* "Auto-pause website after 3 consecutive failures"
AutoPause(status, consecutive_failures) ==
    IF consecutive_failures >= 3 THEN "paused" ELSE status

\* the products table after the session's updates are written
WithUpdates(prods, updates) ==
    [k \in DOMAIN prods |->
        IF \E j \in DOMAIN updates : updates[j].id = k
        THEN updates[CHOOSE j \in DOMAIN updates : updates[j].id = k]
        ELSE prods[k]]

\* process_scheduled_crawl after the product loop: close the crawl log,
\* update the website, commit the session.
FinishCrawl ==
    /\ job.pc = "products"
    /\ job.todo = <<>>
    /\ LET w      == job.website_id
           status == FinalStatus(job.errors_count, job.products_processed)
           cf     == FailuresAfter(status, job.website.consecutive_failures)
       IN /\ crawl_logs' = [crawl_logs EXCEPT ![job.crawl_log_id] =
                 [@ EXCEPT !.status = status,
                           !.products_processed = job.products_processed,
                           !.changes_detected = job.changes_detected,
                           !.errors_count = job.errors_count,
                           !.error_details = job.error_details,
                           !.completed = TRUE]]
          /\ websites' = [websites EXCEPT ![w] =
                 [@ EXCEPT !.last_crawl_status = status,
                           !.consecutive_failures = cf,
                           !.status = AutoPause(@, cf)]]
    /\ products' = WithUpdates(products, job.product_updates)
    /\ history' = history \o job.new_history
    /\ job' = NoJob
    /\ UNCHANGED <<client, tick, requests, deliveryVars, detectVars, signVars, fetchVars, discoverVars, urlVars>>

-----------------------------------------------------------------------------
(***************************************************************************)
(* The fetcher                                                             *)
(***************************************************************************)

\* The tasks of the event loop that fetch. Task 1 is a crawl job that calls
\* crawl_url for one URL after the other, at most MaxFetches times; task 2
\* (another crawl, a discovery) calls it once.
MaxFetches == 2

FetchIds == {1, 2}

\* the domains extract_domain finds in the URLs fetched
Domains == {"shop.example"}

\* What comes back from one GET: a status code, or an exception of the
\* transport.
FetchOutcomes ==
    {[kind |-> "response", code |-> c] : c \in {200, 404, 503}}
    \cup {[kind |-> k, code |-> NULL] : k \in {"timeout", "network_error"}}

\* _rate_limit_seconds = 60.0 / settings.CRAWL_RATE_LIMIT_PER_DOMAIN
rate_limit_seconds == 60 \div CRAWL_RATE_LIMIT_PER_DOMAIN

\* A call of crawl_url that has not started.
NewFetch ==
    [ pc          |-> "idle",
      calls       |-> 0,
      domain      |-> "shop.example",
      retry_count |-> 0,
      wake_at     |-> NULL,
      sent_at     |-> NULL,
      requests    |-> 0,
      status_code |-> NULL ]

\* no fetch was started and no request was issued
FetcherIdle ==
    /\ fetches = [f \in FetchIds |-> NewFetch]
    /\ domain_last_request = [d \in Domains |-> NULL]

\* _rate_limit up to its sleep: the time to wait, 0 if none. A domain not in
\* the map counts as requested at time 0 of the Unix clock, long ago.
wait_time(last_request, t) ==
    IF last_request # NULL /\ t - last_request < rate_limit_seconds
    THEN rate_limit_seconds - (t - last_request)
    ELSE 0

\* The end of _rate_limit and the GET of crawl_url: the time of the request
\* is stored for the domain and the request is issued.
IssueRequest(f, run) ==
    /\ domain_last_request' = [domain_last_request EXCEPT ![run.domain] = now]
    /\ fetches' = [fetches EXCEPT ![f] =
          [run EXCEPT !.pc = "get", !.wake_at = NULL, !.sent_at = now,
                      !.requests = run.requests + 1]]

\* crawl_url from its entry to its first await: _rate_limit reads the clock
\* and the map, and either sleeps or goes on to the request.
EnterCrawlUrl(f, run) ==
    LET wait == wait_time(domain_last_request[run.domain], now)
    IN  IF wait > 0
        THEN /\ fetches' = [fetches EXCEPT ![f] =
                    [run EXCEPT !.pc = "rate_limit", !.wake_at = now + wait]]
             /\ UNCHANGED domain_last_request
        ELSE IssueRequest(f, run)

\* A task awaits crawl_url(url): its first call, or its next one after the
\* last returned or raised (the product loops go on after a failure).
CrawlUrl(f) ==
    /\ fetches[f].pc \in {"idle", "returned", "raised"}
    /\ fetches[f].calls < (IF f = 1 THEN MaxFetches ELSE 1)
    /\ \A g \in FetchIds : g < f => fetches[g].calls > 0
    /\ EnterCrawlUrl(f, [NewFetch EXCEPT !.calls = fetches[f].calls + 1])
    /\ UNCHANGED <<deliveryVars, storeVars, crawlVars, detectVars, signVars, discoverVars, urlVars>>

\* asyncio.sleep(wait_time) of _rate_limit returns.
RateLimitWake(f) ==
    /\ fetches[f].pc = "rate_limit"
    /\ now >= fetches[f].wake_at
    /\ IssueRequest(f, fetches[f])
    /\ UNCHANGED <<deliveryVars, storeVars, crawlVars, detectVars, signVars, discoverVars, urlVars>>

\* A variant that doubles the delay once per retry made, starting from the
\* doubled base.
backoff_secondsFromDouble(retry_count) ==
    CRAWL_RETRY_BACKOFF_BASE * 2 ^ (retry_count + 1)

\* backoff_seconds = self.retry_backoff_base * (2**retry_count)
backoff_seconds(retry_count) == CRAWL_RETRY_BACKOFF_BASE * 2 ^ retry_count

\* if retry_count < self.retry_attempts
MayRetry(retry_count) == retry_count < CRAWL_RETRY_ATTEMPTS

\* crawl_url from the answer of the GET on: status 200 returns the page;
\* any other status raises CrawlError inside the try block, which the
\* "except Exception" clause catches together with the exceptions of the
\* transport; the clause sleeps and retries, or raises CrawlError.
AfterGet(run, outcome) ==
    LET answered == [run EXCEPT !.sent_at = NULL, !.status_code = outcome.code]
    IN  IF outcome.kind = "response" /\ outcome.code = 200
        THEN [answered EXCEPT !.pc = "returned"]
        ELSE IF MayRetry(run.retry_count)
        THEN [answered EXCEPT !.pc = "backoff",
                              !.wake_at = now + backoff_seconds(run.retry_count)]
        ELSE [answered EXCEPT !.pc = "raised"]

\* The GET is answered; httpx raises its timeout DEFAULT_CRAWL_TIMEOUT
\* seconds after the request.
GetAnswered(f, outcome) ==
    /\ fetches[f].pc = "get"
    /\ outcome.kind = "timeout" => now >= fetches[f].sent_at + DEFAULT_CRAWL_TIMEOUT
    /\ fetches' = [fetches EXCEPT ![f] = AfterGet(fetches[f], outcome)]
    /\ UNCHANGED <<domain_last_request, deliveryVars, storeVars,
                   crawlVars, detectVars, signVars, discoverVars, urlVars>>

\* asyncio.sleep(backoff_seconds) returns and crawl_url calls itself with
\* retry_count + 1.
BackoffWake(f) ==
    /\ fetches[f].pc = "backoff"
    /\ now >= fetches[f].wake_at
    /\ EnterCrawlUrl(f, [fetches[f] EXCEPT !.retry_count = @ + 1])
    /\ UNCHANGED <<deliveryVars, storeVars, crawlVars, detectVars, signVars, discoverVars, urlVars>>

\* The times at which a sleeping task is due, and those at which a request
\* times out if the answers include timeouts.
DueTimes(outcomes) ==
    {fetches[f].wake_at :
        f \in {g \in FetchIds : fetches[g].pc \in {"rate_limit", "backoff"}}}
    \cup {fetches[f].sent_at + DEFAULT_CRAWL_TIMEOUT :
              f \in {g \in FetchIds : /\ fetches[g].pc = "get"
                                      /\ \E o \in outcomes : o.kind = "timeout"}}

\* The event loop has nothing to run: time passes until the next task is
\* due.
FetcherClock(outcomes) ==
    /\ \E t \in DueTimes(outcomes) : t > now
    /\ now' = CHOOSE t \in DueTimes(outcomes) :
                  t > now /\ \A u \in DueTimes(outcomes) : u > now => t <= u
    /\ UNCHANGED <<webhook_queue, delivery, webhook_logs, storeVars, crawlVars,
                   detectVars, signVars, fetchVars, discoverVars, urlVars>>

(***************************************************************************)
(* Product discovery                                                       *)
(***************************************************************************)

\* A URL as the discovery code takes it apart: host, path segments and query
\* string. The links of a page went through normalize_url in _extract_links,
\* so they are lower-case in scheme and host and carry no tracking
\* parameter; the patterns below are applied to the path.
Link(host, path, query) == [host |-> host, path |-> path, query |-> query]

\* "segment/" occurs in the path
Followed(path, segment) == \E i \in 1..(Len(path) - 1) : path[i] = segment

\* "segment/next" occurs in the path, for a next of the given class
FollowedBy(path, segment, class) ==
    \E i \in 1..(Len(path) - 1) : path[i] = segment /\ path[i + 1] \in class

\* ProductIDExtractor.extract_from_url: the extraction method, "none" when
\* no product id is found; platforms in the order of PATTERNS, then the
\* generic patterns (a number in the path, a last segment longer than three
\* characters). Path segments are told apart by what the patterns see in
\* them: ten upper-case letters or digits, a slug, a number of four digits
\* or more, and segments of at most three characters.
extract_from_url(url) ==
    LET Asins         == {"B08N5WRWNW"}
        Slugs         == {"awesome-mug"}
        Numbers       == {"123456"}
        ShortSegments == {"dp", "p", "1", "a", "b", "c", "d"}
    IN  IF \/ FollowedBy(url.path, "dp", Asins)
           \/ FollowedBy(url.path, "product", Asins)
        THEN "url_pattern_amazon"
        ELSE IF Followed(url.path, "products")
        THEN "url_pattern_shopify"
        ELSE IF FollowedBy(url.path, "product", Slugs \cup Numbers)
        THEN "url_pattern_woocommerce"
        ELSE IF \E i \in DOMAIN url.path : url.path[i] \in Numbers
        THEN "url_pattern_generic"
        ELSE IF url.path # <<>> /\ url.path[Len(url.path)] \notin ShortSegments
        THEN "url_pattern_generic"
        ELSE "none"

\* extract_base_domain: the last two labels of the host
extract_base_domain(host) ==
    IF host = "www.shop.example" THEN "shop.example" ELSE host

is_same_domain(url1, url2) ==
    extract_base_domain(url1.host) = extract_base_domain(url2.host)

\* PRODUCT_URL_PATTERNS, or a product id that can be extracted
is_product_url(url) ==
    \/ \E segment \in {"product", "products", "item", "items", "p", "dp", "pd"} :
          Followed(url.path, segment)
    \/ extract_from_url(url) # "none"

\* EXCLUDE_PATTERNS
is_excluded_url(url) ==
    \/ \E segment \in {"category", "categories", "collection", "collections"} :
          Followed(url.path, segment)
    \/ \E i \in DOMAIN url.path :
          url.path[i] \in {"search", "cart", "checkout", "account", "login",
                           "register", "blog", "about", "contact"}

filter_product_links(links, base_url) ==
    SelectSeq(links, LAMBDA link : /\ is_same_domain(link, base_url)
                                   /\ is_product_url(link)
                                   /\ ~is_excluded_url(link))

\* clean_url_for_comparison: query and fragment are dropped
clean_url_for_comparison(url) == Link(url.host, url.path, "")

\* _calculate_relevance, in tenths: base 0.5, +0.2 for at most three path
\* segments or +0.1 for at most five, +0.2 for a strong indicator in the
\* path, +0.1 for an Amazon or Shopify id; clamped to [0, 1].
calculate_relevance(url) ==
    LET segments == IF Len(url.path) <= 3 THEN 2
                    ELSE IF Len(url.path) <= 5 THEN 1 ELSE 0
        strong   == IF \E segment \in {"product", "p", "dp", "item"} :
                          Followed(url.path, segment)
                    THEN 2 ELSE 0
        platform == IF extract_from_url(url) \in
                          {"url_pattern_amazon", "url_pattern_shopify"}
                    THEN 1 ELSE 0
        score    == 5 + segments + strong + platform
    IN  IF score > 10 THEN 10 ELSE IF score < 0 THEN 0 ELSE score

\* no call, no result, no product info (None)
NoDiscovery == <<>>

\* _extract_product_info: None when no product id can be extracted
extract_product_info(url) ==
    IF extract_from_url(url) = "none"
    THEN NoDiscovery
    ELSE [ url               |-> url,
           normalized_url    |-> url,
           extraction_method |-> extract_from_url(url),
           relevance_score   |-> calculate_relevance(url) ]

\* A variant that tells duplicates by the whole link, query included.
clean_linkWithQuery(link) == link

\* clean_link = clean_url_for_comparison(link)
clean_link(link) == clean_url_for_comparison(link)

\* The loop over the product links of one seed page; st holds
\* discovered_urls and products.
RECURSIVE DiscoverLinks(_, _, _)
DiscoverLinks(links, st, max_products) ==
    IF links = <<>> \/ Len(st.products) >= max_products
    THEN st
    ELSE IF clean_link(Head(links)) \in st.discovered_urls
    THEN DiscoverLinks(Tail(links), st, max_products)
    ELSE LET product_info == extract_product_info(Head(links))
         IN  DiscoverLinks(Tail(links),
                 [discovered_urls |-> st.discovered_urls \cup {clean_link(Head(links))},
                  products |-> IF product_info = NoDiscovery
                               THEN st.products
                               ELSE Append(st.products, product_info)],
                 max_products)

\* The loop over the seed URLs; a seed whose crawl raises is skipped.
RECURSIVE DiscoverSeeds(_, _, _, _)
DiscoverSeeds(seeds, base_url, st, max_products) ==
    IF seeds = <<>> \/ Len(st.products) >= max_products
    THEN st
    ELSE IF Head(seeds).kind = "error"
    THEN DiscoverSeeds(Tail(seeds), base_url, st, max_products)
    ELSE DiscoverSeeds(Tail(seeds), base_url,
             DiscoverLinks(filter_product_links(Head(seeds).links, base_url),
                           st, max_products),
             max_products)

\* _rank_products: sorted(..., reverse=True) by relevance_score; the sort is
\* stable, equal scores stay in the order of discovery.
RECURSIVE rank_products(_)
rank_products(found) ==
    IF found = <<>> THEN <<>>
    ELSE LET n      == Len(found)
             ranked == rank_products(SubSeq(found, 1, n - 1))
             k      == Cardinality({i \in DOMAIN ranked :
                          ranked[i].relevance_score >= found[n].relevance_score})
         IN  SubSeq(ranked, 1, k) \o <<found[n]>>
                 \o SubSeq(ranked, k + 1, Len(ranked))

\* discover_products: ranked_products[:max_products]
discover_products(base_url, seeds, max_products) ==
    LET st     == DiscoverSeeds(seeds, base_url,
                      [discovered_urls |-> {}, products |-> <<>>], max_products)
        ranked == rank_products(st.products)
    IN  SubSeq(ranked, 1, IF Len(ranked) < max_products
                          THEN Len(ranked) ELSE max_products)

\* no discovery is running
DiscovererIdle ==
    /\ disIn = NoDiscovery
    /\ disOut = NoDiscovery

(***************************************************************************)
(* URL normalisation                                                       *)
(*                                                                         *)
(* A URL is the record of its parts as urlparse returns them; the query is *)
(* the sequence of its <<key, value>> parameters in the order written.     *)
(***************************************************************************)
Url(scheme, netloc, path, query, fragment) ==
    [scheme |-> scheme, netloc |-> netloc, path |-> path, query |-> query,
     fragment |-> fragment]

\* core.url_utils.TRACKING_PARAMS (the one the model's URLs carry)
TRACKING_PARAMS == {"utm_source"}

\* str.lower on the strings of the model
Lower(str) ==
    CASE str = "HTTPS" -> "https"
      [] str = "Shop.Example" -> "shop.example"
      [] str = "UTM_Source" -> "utm_source"
      [] OTHER -> str

\* Python's order of str on the keys and values of the model (code points:
\* digits, then upper case, then lower case)
StrOrder == <<"1", "2", "UTM_Source", "color", "id", "utm_source">>

StrRank(str) == CHOOSE i \in 1..Len(StrOrder) : StrOrder[i] = str

\* sorted() of a list of (key, value) tuples
RECURSIVE SortedParams(_)
SortedParams(params) ==
    IF params = <<>> THEN <<>>
    ELSE LET Before(a, b) == \/ StrRank(a[1]) < StrRank(b[1])
                             \/ /\ a[1] = b[1]
                                /\ StrRank(a[2]) <= StrRank(b[2])
             i == CHOOSE k \in 1..Len(params) :
                      \A j \in 1..Len(params) : Before(params[k], params[j])
         IN <<params[i]>>
            \o SortedParams(SubSeq(params, 1, i - 1) \o SubSeq(params, i + 1, Len(params)))

\* parse_qs followed by urlencode(..., doseq=True) over the keys of the dict
\* in the given order: the values of a key come together, in the order they
\* had in the query
RECURSIVE UrlencodeDoseq(_, _)
UrlencodeDoseq(keys, query) ==
    IF keys = <<>> THEN <<>>
    ELSE SelectSeq(query, LAMBDA p : p[1] = Head(keys)) \o UrlencodeDoseq(Tail(keys), query)

\* the keys of parse_qs(query), each once, in order of first appearance
RECURSIVE ParseQsKeys(_)
ParseQsKeys(query) ==
    IF query = <<>> THEN <<>>
    ELSE <<Head(query)[1]>>
         \o ParseQsKeys(SelectSeq(Tail(query), LAMBDA p : p[1] # Head(query)[1]))

\* the keys of the query with the filter of tracking parameters left out
cleaned_paramsKeepTracking(query_params) ==
    query_params

\* cleaned_params of normalize_url: the keys that are no tracking parameter
cleaned_params(query_params) ==
    SelectSeq(query_params, LAMBDA k : Lower(k) \notin TRACKING_PARAMS)

\* sorted_params and new_query of normalize_url: the (key, values) items of
\* the cleaned dict sorted (by key, the keys of a dict being distinct) and
\* encoded again
new_query(query) ==
    LET keys == cleaned_params(ParseQsKeys(query))
        sorted_keys == SortedParams([i \in 1..Len(keys) |-> <<keys[i], "1">>])
    IN UrlencodeDoseq([i \in 1..Len(keys) |-> sorted_keys[i][1]], query)

\* url_normalize of the library: scheme and host in lower case
url_normalize(url) ==
    [url EXCEPT !.scheme = Lower(@), !.netloc = Lower(@)]

\* w3lib's canonicalize_url: the parameters sorted by key and value, the
\* fragment dropped
canonicalize_url(url) ==
    [url EXCEPT !.query = SortedParams(@), !.fragment = ""]

NormalizeUrl(url) ==
    LET parsed == url_normalize(url)
    IN canonicalize_url(Url(Lower(parsed.scheme), Lower(parsed.netloc), parsed.path,
                            new_query(parsed.query), ""))

NoUrlResult == <<>>

NormalizerIdle ==
    /\ urlIn = NoUrlResult
    /\ urlOut = NoUrlResult

\* the queries of at most n parameters over the model's keys and values
Queries(n) ==
    UNION {[1..k -> {"id", "color", "utm_source", "UTM_Source"} \X {"1", "2"}] : k \in 0..n}

\* the URLs given to normalize_url
NormalizeInputs ==
    {Url(form[1], form[2], "/p/1", query, form[3]) :
        form \in {<<"https", "shop.example", "">>, <<"HTTPS", "Shop.Example", "reviews">>},
        query \in Queries(MaxParams)}

-----------------------------------------------------------------------------
(***************************************************************************)
(* Specifications                                                          *)
(***************************************************************************)

NoDetection == <<>>

NoSigning == <<>>

\* no request is being verified
SignerIdle ==
    /\ sigIn = NoSigning
    /\ sigOut = NoSigning

\* The store after the registration of the websites, with or without a
\* webhook endpoint.
InitStoreOf(ids, endpoints) ==
    /\ client = [webhook_secret_current |-> 1,
                 webhook_secret_previous |-> NULL,
                 secret_rotation_expires_at |-> NULL]
    /\ websites \in [ids -> {RegisteredWebsite(u) : u \in endpoints}]
    /\ products = <<>>
    /\ history = <<>>
    /\ crawl_logs = <<>>
    /\ tick = <<>>
    /\ job = NoJob
    /\ requests = 0

\* The pipeline: websites registered, nothing approved or crawled yet.
InitStore(endpoints) == InitStoreOf(WebsiteIds, endpoints)

InitPipeline(endpoints) ==
    /\ now = 0
    /\ webhook_queue = <<>>
    /\ delivery = <<>>
    /\ webhook_logs = <<>>
    /\ InitStore(endpoints)
    /\ detIn = NoDetection
    /\ detOut = NoDetection
    /\ SignerIdle
    /\ FetcherIdle
    /\ DiscovererIdle
    /\ NormalizerIdle

\* A website registered with a webhook endpoint.
Init == InitPipeline({WebhookEndpoint})

\* A website registered with or without a webhook endpoint.
InitChanges == InitPipeline({NoUrl, WebhookEndpoint})

\* The steps of the pipeline, for the URLs clients approve and the pages
\* the crawler finds at approval time and at scheduled crawls.
Pipeline(urls, updateKeys, baselineOutcomes, crawlOutcomes, maxCrawls) ==
    \/ \E w \in WebsiteIds, keys \in SUBSET updateKeys,
          threshold \in Thresholds, enabled \in BOOLEAN :
          UpdateWebsite(w, keys, threshold, enabled, WebhookEndpoint)
    \/ \E w \in WebsiteIds, urlset \in SUBSET urls :
          \E outcomes \in [urlset -> baselineOutcomes] :
             BaselineCrawl(w, urlset, outcomes)
    \/ FetchActiveWebsites(maxCrawls)
    \/ CrawlWebsite
    \/ \E outcome \in crawlOutcomes : CrawlProduct(outcome)
    \/ FinishCrawl

\* A website with up to two products whose pages stay as they are, and
\* whose webhooks are switched off and on.
Next ==
    Pipeline(Urls, {"webhook_enabled"}, BaselineOutcomes, StatusOutcomes,
             MaxCrawls)

Spec == Init /\ [][Next]_vars

\* A website with one product whose page shows any price and stock status.
NextChanges ==
    Pipeline({"https://shop.example/p/1"}, UpdateKeys, BaselineOutcomes,
             CrawlOutcomes, MaxChangeCrawls)

SpecChanges == InitChanges /\ [][NextChanges]_vars

\* A product whose page is read, with crawls in which the comparison with
\* the previous record raises (as the subtraction of the stored Decimal from
\* the float that _extract_price returns does).
PersistOutcomes ==
    StatusOutcomes
    \cup {[kind |-> k, price |-> 4, stock_status |-> "in_stock"] :
              k \in {"ok", "detection_error"}}

NextPersist ==
    Pipeline({"https://shop.example/p/1"}, {"webhook_enabled"}, BaselineOutcomes,
             PersistOutcomes, MaxChangeCrawls)

SpecPersist == Init /\ [][NextPersist]_vars

\* Approvals, one after another, of lists drawn from two product pages and a
\* tracked link to the first of them; every page is readable.
NextApprove ==
    Pipeline(Urls \cup {TrackedUrl}, {"webhook_enabled"},
             {o \in BaselineOutcomes : o.kind = "ok"}, StatusOutcomes,
             MaxChangeCrawls)

SpecApprove == Init /\ [][NextApprove]_vars

\* Two websites with one product each, the cron ticks that crawl them, and
\* website jobs that end with an unexpected error.
TickWebsiteIds == {1, 2}

InitTick ==
    /\ now = 0
    /\ webhook_queue = <<>>
    /\ delivery = <<>>
    /\ webhook_logs = <<>>
    /\ InitStoreOf(TickWebsiteIds, {WebhookEndpoint})
    /\ detIn = NoDetection
    /\ detOut = NoDetection
    /\ SignerIdle
    /\ FetcherIdle
    /\ DiscovererIdle
    /\ NormalizerIdle

NextTick ==
    \/ \E w \in TickWebsiteIds, u \in Urls :
          BaselineCrawl(w, {u}, [v \in {u} |->
              [kind |-> "ok", price |-> 5, stock_status |-> "in_stock"]])
    \/ FetchActiveWebsites(MaxChangeCrawls)
    \/ CrawlWebsite
    \/ \E outcome \in StatusOutcomes : CrawlProduct(outcome)
    \/ FinishCrawl
    \/ CrawlAborted

\* The workflow engine runs the steps of a tick: a step that can run does.
SpecTick == InitTick /\ [][NextTick]_vars /\ WF_vars(NextTick)

\* The events a scheduled crawl can enqueue, one per history record.
EnqueueableEvents ==
    UNION { { WebhookDeliverEvent(1, RegisteredWebsite(WebhookEndpoint),
                                  [webhook_secret_current |-> 1], 1,
                                  PriceChangeEvent(cr, 1)),
              WebhookDeliverEvent(1, RegisteredWebsite(WebhookEndpoint),
                                  [webhook_secret_current |-> 1], 1,
                                  StockChangeEvent(cr, 1)) }
            : cr \in { [NoChangeResult(1) EXCEPT
                           !.price_changed = TRUE, !.stock_changed = TRUE,
                           !.old_price = 5, !.new_price = 4,
                           !.price_change_pct = <<-100, 5>>,
                           !.old_stock_status = "in_stock",
                           !.new_stock_status = "out_of_stock",
                           !.exceeded_threshold = TRUE] } }

\* One delivery lifecycle: an event was enqueued, nothing was sent yet.
\* Lifecycles share nothing but the clock and the log table, whose rows
\* carry the product_history_id of their event; the function reads the
\* event alone, so the other tables are left as they are after registration.
InitDelivery ==
    /\ now = 0
    /\ webhook_queue \in {<<ev>> : ev \in EnqueueableEvents}
    /\ delivery = [i \in DOMAIN webhook_queue |-> NewDelivery]
    /\ webhook_logs = <<>>
    /\ InitStore({WebhookEndpoint})
    /\ detIn = NoDetection
    /\ detOut = NoDetection
    /\ SignerIdle
    /\ FetcherIdle
    /\ DiscovererIdle
    /\ NormalizerIdle

NextDelivery ==
    \/ \E i \in DOMAIN delivery : DeliverFunctionStart(i)
    \/ \E i \in DOMAIN delivery : DeliverSend(i)
    \/ \E i \in DOMAIN delivery, outcome \in HttpOutcomes : DeliverFinish(i, outcome)
    \/ AwaitResponse
    \/ \E d \in IdleSteps : Idle(d)

SpecDelivery == InitDelivery /\ [][NextDelivery]_vars

\* Pages whose price and stock status change, with the price alone or both.
NotifyOutcomes ==
    {[kind |-> "ok", price |-> 5, stock_status |-> "in_stock"],
     [kind |-> "ok", price |-> 4, stock_status |-> "in_stock"],
     [kind |-> "ok", price |-> 4, stock_status |-> "out_of_stock"]}

\* An endpoint that answers 200 or 503.
NotifyHttpOutcomes ==
    {o \in HttpOutcomes : o.kind = "response" /\ o.code \in {200, 503}}

\* From the crawl to the endpoint: one product is approved and crawled, and
\* the events the crawls enqueue are delivered while the crawls go on.
NextNotify ==
    \/ \E w \in WebsiteIds :
          BaselineCrawl(w, {"https://shop.example/p/1"},
                        [u \in {"https://shop.example/p/1"} |->
                            [kind |-> "ok", price |-> 5, stock_status |-> "in_stock"]])
    \/ FetchActiveWebsites(MaxChangeCrawls)
    \/ CrawlWebsite
    \/ \E outcome \in NotifyOutcomes : CrawlProduct(outcome)
    \/ FinishCrawl
    \/ \E i \in DOMAIN delivery : DeliverFunctionStart(i)
    \/ \E i \in DOMAIN delivery : DeliverSend(i)
    \/ \E i \in DOMAIN delivery, outcome \in NotifyHttpOutcomes :
          DeliverFinish(i, outcome)

SpecNotify == Init /\ [][NextNotify]_vars

\* Scheduled crawls that find the price changed, the delivery of their
\* webhooks, and the client rotating the webhook secret at any moment.
MaxRotations == 2

NextRotate ==
    \/ \E w \in WebsiteIds :
          BaselineCrawl(w, {"https://shop.example/p/1"},
                        [u \in {"https://shop.example/p/1"} |->
                            [kind |-> "ok", price |-> 5, stock_status |-> "in_stock"]])
    \/ FetchActiveWebsites(MaxChangeCrawls)
    \/ CrawlWebsite
    \/ \E price \in {4, 5} :
          CrawlProduct([kind |-> "ok", price |-> price, stock_status |-> "in_stock"])
    \/ FinishCrawl
    \/ RotateWebhookSecret(MaxRotations)
    \/ \E i \in DOMAIN delivery : DeliverFunctionStart(i)
    \/ \E i \in DOMAIN delivery : DeliverSend(i)
    \/ \E i \in DOMAIN delivery, outcome \in NotifyHttpOutcomes :
          DeliverFinish(i, outcome)

SpecRotate == Init /\ [][NextRotate]_vars

\* The fetcher alone: concurrent calls of crawl_url for one domain.
InitFetch ==
    /\ now = 0
    /\ webhook_queue = <<>>
    /\ delivery = <<>>
    /\ webhook_logs = <<>>
    /\ InitStore({WebhookEndpoint})
    /\ detIn = NoDetection
    /\ detOut = NoDetection
    /\ SignerIdle
    /\ FetcherIdle
    /\ DiscovererIdle
    /\ NormalizerIdle

\* The steps of the given tasks, with the given answers to their requests.
Fetcher(tasks, outcomes) ==
    \/ \E f \in tasks : CrawlUrl(f)
    \/ \E f \in tasks : RateLimitWake(f)
    \/ \E f \in tasks, outcome \in outcomes : GetAnswered(f, outcome)
    \/ \E f \in tasks : BackoffWake(f)
    \/ FetcherClock(outcomes)

\* One task that fetches one URL after the other, with every kind of answer.
NextFetch == Fetcher({1}, FetchOutcomes)

SpecFetch == InitFetch /\ [][NextFetch]_vars

\* The same with the event loop running what is due: a request is answered
\* or times out, a sleep returns.
SpecFetchLive == SpecFetch /\ WF_vars(NextFetch)

\* Two tasks that fetch from the same domain concurrently; the pages are
\* served or the server fails, and the answers arrive at once.
NextFetchConcurrent ==
    Fetcher(FetchIds, {o \in FetchOutcomes : o.code \in {200, 503}})

SpecFetchConcurrent == InitFetch /\ [][NextFetchConcurrent]_vars

\* largest price handed to the detector on its own
MaxPrice == 6

DetectorPrices == {NULL} \cup (0..MaxPrice)
DetectorThresholds == {1, 100, 2500, 5000, 10000}

\* The detector on its own: one call of _detect_price_change.
InitDetect ==
    /\ now = 0
    /\ webhook_queue = <<>>
    /\ delivery = <<>>
    /\ webhook_logs = <<>>
    /\ InitStore({WebhookEndpoint})
    /\ detIn \in [old_price : DetectorPrices, new_price : DetectorPrices,
                  threshold_pct : DetectorThresholds]
    /\ detOut = NoDetection
    /\ SignerIdle
    /\ FetcherIdle
    /\ DiscovererIdle
    /\ NormalizerIdle

DetectPriceChange ==
    /\ detOut = NoDetection
    /\ detOut' = detect_price_change(detIn.old_price, detIn.new_price,
                                     detIn.threshold_pct)
    /\ UNCHANGED <<detIn, deliveryVars, storeVars, crawlVars, signVars, fetchVars, discoverVars, urlVars>>

NextDetect == DetectPriceChange

SpecDetect == InitDetect /\ [][NextDetect]_vars

\* The signer and a receiver as functions: a body is signed with a secret at
\* a time, and a receiver holding a current and possibly a previous secret
\* verifies a body against the header at its own clock reading.
ClockMargin == 2

Bodies == {"{\"event_id\":1}", "{\"event_id\":2}"}

\* secrets are tokens, numbered here in the order of their generation
Secrets == {1, 2}

SignTimes == {TOLERANCE_WINDOW + ClockMargin}

\* clock readings (half seconds) around the signing time and around both
\* ends of the tolerance window
ReceiverClocks ==
    {c \in 0..(2 * (2 * (TOLERANCE_WINDOW + ClockMargin)) + 1) :
        \E t \in SignTimes : \E d \in {0, TOLERANCE_WINDOW} :
            Abs(Abs(IntTime(c) - t) - d) <= ClockMargin}

InitSign ==
    /\ now = 0
    /\ webhook_queue = <<>>
    /\ delivery = <<>>
    /\ webhook_logs = <<>>
    /\ InitStore({WebhookEndpoint})
    /\ detIn = NoDetection
    /\ detOut = NoDetection
    /\ sigIn \in [payload : Bodies, webhook_secret : Secrets,
                  timestamp : SignTimes, received : Bodies,
                  current_secret : Secrets,
                  previous_secret : Secrets \cup {NoSecret},
                  clock : ReceiverClocks, lag : 0..1]
    /\ sigOut = NoSigning
    /\ FetcherIdle
    /\ DiscovererIdle
    /\ NormalizerIdle

SignedHeader ==
    generate_signature(sigIn.payload, sigIn.webhook_secret, sigIn.timestamp,
                       2 * sigIn.timestamp).signature_header

VerifySignature ==
    /\ sigOut = NoSigning
    /\ sigOut' = [op |-> "verify_signature",
                  result |-> verify_signature(sigIn.received, SignedHeader,
                                              sigIn.current_secret,
                                              sigIn.clock)]
    /\ UNCHANGED <<sigIn, deliveryVars, storeVars, crawlVars, detectVars,
                   fetchVars, discoverVars, urlVars>>

VerifySignatureWithRotation ==
    /\ sigOut = NoSigning
    /\ sigOut' = [op |-> "verify_signature_with_rotation",
                  result |-> verify_signature_with_rotation(
                                 sigIn.received, SignedHeader,
                                 sigIn.current_secret, sigIn.previous_secret,
                                 sigIn.clock, sigIn.lag)]
    /\ UNCHANGED <<sigIn, deliveryVars, storeVars, crawlVars, detectVars,
                   fetchVars, discoverVars, urlVars>>

NextSign ==
    \/ VerifySignature
    \/ VerifySignatureWithRotation

SpecSign == InitSign /\ [][NextSign]_vars

\* A product whose price and stock status change, in crawls of which some
\* end with an unexpected error before their commit.
NextCommit ==
    \/ \E w \in WebsiteIds :
          BaselineCrawl(w, {"https://shop.example/p/1"},
                        [u \in {"https://shop.example/p/1"} |->
                            [kind |-> "ok", price |-> 5, stock_status |-> "in_stock"]])
    \/ FetchActiveWebsites(MaxChangeCrawls)
    \/ CrawlWebsite
    \/ \E outcome \in NotifyOutcomes : CrawlProduct(outcome)
    \/ FinishCrawl
    \/ CrawlAborted

SpecCommit == Init /\ [][NextCommit]_vars

\* The same, with the workflow engine running every step that can run.
SpecCommitLive == SpecCommit /\ WF_vars(NextCommit)

\* The client rotates the webhook secret, the hour of grace passes, and the
\* scheduler goes on with its ticks and crawls.
SpecGrace ==
    /\ Init
    /\ [][\/ \E w \in WebsiteIds :
              BaselineCrawl(w, {"https://shop.example/p/1"},
                            [u \in {"https://shop.example/p/1"} |->
                                [kind |-> "ok", price |-> 5, stock_status |-> "in_stock"]])
          \/ FetchActiveWebsites(MaxChangeCrawls)
          \/ CrawlWebsite
          \/ \E outcome \in StatusOutcomes : CrawlProduct(outcome)
          \/ FinishCrawl
          \/ RotateWebhookSecret(MaxRotations)
          \/ GracePeriodElapses]_vars

\* A website registered with any endpoint that register_website accepts, or
\* with none; the client then sets any endpoint, and crawls that find the
\* price changed enqueue webhooks.
InitEndpoint ==
    InitPipeline({NoUrl} \cup {u \in {WebhookEndpoint, HttpEndpoint} :
                                 validate_webhook_endpoint(u)})

NextEndpoint ==
    \/ \E w \in WebsiteIds, endpoint \in {WebhookEndpoint, HttpEndpoint} :
          UpdateWebsite(w, {"webhook_endpoint_url"}, 100, TRUE, endpoint)
    \/ \E w \in WebsiteIds :
          BaselineCrawl(w, {"https://shop.example/p/1"},
                        [u \in {"https://shop.example/p/1"} |->
                            [kind |-> "ok", price |-> 5, stock_status |-> "in_stock"]])
    \/ FetchActiveWebsites(MaxChangeCrawls)
    \/ CrawlWebsite
    \/ \E outcome \in NotifyOutcomes : CrawlProduct(outcome)
    \/ FinishCrawl

SpecEndpoint == InitEndpoint /\ [][NextEndpoint]_vars

\* Discovery on its own: the shop, the links its pages can carry (product
\* pages of different relevance, one of them also with a query string, a
\* category page, a page of another site, a page with no extractable id),
\* two seed pages of up to MaxLinks links each or that cannot be crawled.
MaxLinks == 2
MaxProducts == 2

DiscoveryLinks ==
    { Link("shop.example", <<"dp", "B08N5WRWNW">>, ""),
      Link("shop.example", <<"dp", "B08N5WRWNW">>, "color=red"),
      Link("shop.example", <<"products", "awesome-mug">>, ""),
      Link("shop.example", <<"a", "b", "c", "d", "item", "123456">>, ""),
      Link("shop.example", <<"category", "product", "awesome-mug">>, ""),
      Link("other.example", <<"dp", "B08N5WRWNW">>, ""),
      Link("www.shop.example", <<"p", "1">>, "") }

\* What crawl_url(seed_url, extract_links=True) yields: the links of the
\* page, in the arbitrary order of list(set(links)), or a CrawlError.
SeedPages ==
    {[kind |-> "error", links |-> <<>>]}
    \cup {[kind |-> "ok", links |-> links] :
             links \in {l \in UNION {[1..n -> DiscoveryLinks] : n \in 0..MaxLinks} :
                           \A i, j \in DOMAIN l : i # j => l[i] # l[j]}}

InitDiscover ==
    /\ now = 0
    /\ webhook_queue = <<>>
    /\ delivery = <<>>
    /\ webhook_logs = <<>>
    /\ InitStore({WebhookEndpoint})
    /\ detIn = NoDetection
    /\ detOut = NoDetection
    /\ SignerIdle
    /\ FetcherIdle
    /\ disIn \in [base_url : {Link("shop.example", <<>>, "")}, seeds : [1..2 -> SeedPages],
                  max_products : 1..MaxProducts]
    /\ disOut = NoDiscovery
    /\ NormalizerIdle

DiscoverProducts ==
    /\ disOut = NoDiscovery
    /\ disOut' = [candidates |-> discover_products(disIn.base_url, disIn.seeds,
                                                   disIn.max_products)]
    /\ UNCHANGED <<disIn, deliveryVars, storeVars, crawlVars, detectVars, signVars, fetchVars,
                   urlVars>>

SpecDiscover == InitDiscover /\ [][DiscoverProducts]_vars

\* normalize_url called on a URL, and again on its result.
InitNormalize ==
    /\ now = 0
    /\ webhook_queue = <<>>
    /\ delivery = <<>>
    /\ webhook_logs = <<>>
    /\ InitStore({WebhookEndpoint})
    /\ detIn = NoDetection
    /\ detOut = NoDetection
    /\ SignerIdle
    /\ FetcherIdle
    /\ DiscovererIdle
    /\ urlIn \in NormalizeInputs
    /\ urlOut = NoUrlResult

CallNormalizeUrl ==
    /\ urlOut = NoUrlResult
    /\ urlOut' = NormalizeUrl(urlIn)
    /\ UNCHANGED <<urlIn, deliveryVars, storeVars, crawlVars, detectVars, signVars, fetchVars,
                   discoverVars>>

\* normalize_url applied to what it returned
RenormalizeUrl ==
    /\ urlOut # NoUrlResult
    /\ urlIn # urlOut
    /\ urlIn' = urlOut
    /\ urlOut' = NormalizeUrl(urlOut)
    /\ UNCHANGED <<deliveryVars, storeVars, crawlVars, detectVars, signVars, fetchVars,
                   discoverVars>>

SpecNormalize == InitNormalize /\ [][CallNormalizeUrl \/ RenormalizeUrl]_vars

-----------------------------------------------------------------------------
(***************************************************************************)
(* Properties                                                              *)
(***************************************************************************)

\* the log rows of one delivery lifecycle, in commit order
RowsOf(h) ==
    LET Mine(r) == r.product_history_id = h
    IN SelectSeq(webhook_logs, Mine)

\* C1: a retry is sent only after the wait recorded by the previous failed
\* attempt has elapsed: the attempt that follows a row in status retrying is
\* sent (signed and posted) no earlier than that row's next_retry_at.
C1_RetryWaitsForNextRetryAt ==
    \A i \in DOMAIN webhook_queue :
        LET rows == RowsOf(webhook_queue[i].product_history_id)
        IN \A k \in DOMAIN rows :
              /\ (k > 1 /\ rows[k - 1].status = "retrying")
                     => rows[k].timestamp_header >= rows[k - 1].next_retry_at
              /\ (k = Len(rows) /\ rows[k].status = "retrying"
                     /\ delivery[i].pc = "posting")
                     => delivery[i].sent_at >= rows[k].next_retry_at

\* C2: the rows of a delivery carry attempt_number 1, 2, 3 in this order,
\* one row per attempt and at most MAX_ATTEMPTS; every row but the last is
\* a failed attempt (nothing is sent after a 2xx); once the function has
\* returned the last row has status success or exhausted.
C2_RetryMonotonicity ==
    \A i \in DOMAIN webhook_queue :
        LET rows == RowsOf(webhook_queue[i].product_history_id)
        IN /\ Len(rows) <= MAX_ATTEMPTS
           /\ \A k \in DOMAIN rows : rows[k].attempt_number = k
           /\ \A k \in DOMAIN rows : k < Len(rows) => rows[k].status = "retrying"
           /\ delivery[i].pc \in {"send", "posting"}
                  => delivery[i].attempt_number = Len(rows) + 1
           /\ delivery[i].pc = "done"
                  => /\ rows # <<>>
                     /\ rows[Len(rows)].status \in {"success", "exhausted"}

\* C2 witness: the endpoint failed twice and then answered 2xx.
C2_Witness ==
    /\ delivery # <<>>
    /\ delivery[1].pc = "done"
    /\ Len(webhook_logs) = 3
    /\ webhook_logs[1].status = "retrying"
    /\ webhook_logs[2].status = "retrying"
    /\ webhook_logs[3].status = "success"

\* C3: an attempt answered with 2xx is logged as success; any other attempt
\* (non-2xx, timeout, network error) is logged as retrying with
\* next_retry_at = now + 5 min when it was attempt 1, now + 30 min when it
\* was attempt 2, and as exhausted without next_retry_at when it was
\* attempt 3.
C3_AttemptClassification ==
    \A k \in DOMAIN webhook_logs :
        LET r == webhook_logs[k]
            ok == r.http_status_code # NULL /\ r.http_status_code >= 200
                  /\ r.http_status_code <= 299
        IN /\ ok => r.status = "success" /\ r.next_retry_at = NULL
           /\ (~ok /\ r.attempt_number = 1)
                  => r.status = "retrying"
                     /\ r.next_retry_at = r.delivery_timestamp + 5 * 60
           /\ (~ok /\ r.attempt_number = 2)
                  => r.status = "retrying"
                     /\ r.next_retry_at = r.delivery_timestamp + 30 * 60
           /\ (~ok /\ r.attempt_number = 3)
                  => r.status = "exhausted" /\ r.next_retry_at = NULL

\* C3 witness: three failed attempts of different kinds were logged, the
\* first two at a time later than the start of the delivery.
C3_Witness ==
    /\ Len(webhook_logs) = 3
    /\ webhook_logs[1].http_status_code = 503
    /\ webhook_logs[1].delivery_timestamp > 0
    /\ webhook_logs[2].http_status_code = NULL
    /\ webhook_logs[2].next_retry_at = webhook_logs[2].delivery_timestamp + 1800
    /\ webhook_logs[3].status = "exhausted"

\* the completed scheduled crawl logs of a website, oldest first
ScheduledCrawls(w) ==
    LET Mine(l) == l.website_id = w /\ l.triggered_by = "scheduled" /\ l.completed
    IN SelectSeq(crawl_logs, Mine)

\* the number of failed logs at the end of a sequence of logs
RECURSIVE TrailingFailed(_)
TrailingFailed(logs) ==
    IF logs = <<>> \/ logs[Len(logs)].status # "failed"
    THEN 0
    ELSE 1 + TrailingFailed(SubSeq(logs, 1, Len(logs) - 1))

\* C4: in every reachable state a website with consecutive_failures >= 3
\* has status paused, and a scheduled crawl log is opened only for a
\* website whose status is active.
C4_AutoPause ==
    /\ [](\A w \in WebsiteIds :
              websites[w].consecutive_failures >= 3 => websites[w].status = "paused")
    /\ [][\A k \in DOMAIN crawl_logs' :
              (k \notin DOMAIN crawl_logs /\ crawl_logs'[k].triggered_by = "scheduled")
                  => websites[crawl_logs'[k].website_id].status = "active"]_vars

\* C5: consecutive_failures equals the number of the website's most recent
\* consecutive scheduled crawls that closed as failed (a failed crawl adds
\* one, a crawl closed as success or partial_success resets it to 0), and a
\* crawl that brings it to 3 or more leaves the website paused.
C5_ConsecutiveFailures ==
    /\ [](\A w \in WebsiteIds :
              websites[w].consecutive_failures = TrailingFailed(ScheduledCrawls(w)))
    /\ [][\A w \in WebsiteIds :
              (Len(ScheduledCrawls(w))' > Len(ScheduledCrawls(w))
                  /\ websites'[w].consecutive_failures >= 3)
                  => websites'[w].status = "paused"]_vars

\* C5 witness: three scheduled crawls in a row closed as failed.
C5_Witness ==
    \E w \in WebsiteIds :
        /\ TrailingFailed(ScheduledCrawls(w)) = 3
        /\ websites[w].consecutive_failures = 3
        /\ websites[w].status = "paused"

\* C6: a finished scheduled crawl log has status success exactly when
\* errors_count = 0, partial_success exactly when errors_count >= 1 and
\* products_processed >= 1, failed exactly when errors_count >= 1 and
\* products_processed = 0.
C6_FinalStatus ==
    \A k \in DOMAIN crawl_logs :
        LET l == crawl_logs[k]
        IN (l.triggered_by = "scheduled" /\ l.completed)
              => /\ l.status \in {"success", "partial_success", "failed"}
                 /\ l.status = "success" <=> l.errors_count = 0
                 /\ l.status = "partial_success"
                        <=> (l.errors_count >= 1 /\ l.products_processed >= 1)
                 /\ l.status = "failed"
                        <=> (l.errors_count >= 1 /\ l.products_processed = 0)

\* C6 witness: a crawl in which one product failed and one was processed.
C6_Witness ==
    \E k \in DOMAIN crawl_logs :
        /\ crawl_logs[k].triggered_by = "scheduled"
        /\ crawl_logs[k].status = "partial_success"
        /\ crawl_logs[k].errors_count = 1
        /\ crawl_logs[k].products_processed = 1

\* the history records written so far, those of the running job included
HistoryView == history \o job.new_history

\* the product's latest record before record k, 0 when k is its first
Predecessor(k) ==
    get_latest_history_record(HistoryView[k].product_id, SubSeq(HistoryView, 1, k - 1))

\* C7: for every history record that has a predecessor, price_changed is
\* true if and only if its price differs from the predecessor's price (a
\* null price differs from any value, two null prices are equal), for all
\* prices including 0.
C7_PriceChangedFlag ==
    \A k \in DOMAIN HistoryView :
        Predecessor(k) # 0
            => (HistoryView[k].price_changed
                   <=> HistoryView[k].price # HistoryView[Predecessor(k)].price)

\* C8: for non-null prices with old # 0 the detector returns
\* price_change_pct = (new - old) / old * 100, and exceeded_threshold is
\* true if and only if |price_change_pct| >= the threshold (inclusive);
\* equal prices never exceed it.
C8_PercentageAndThreshold ==
    (detOut # NoDetection /\ detIn.old_price \notin {NULL, 0} /\ detIn.new_price # NULL)
        => LET old == detIn.old_price
               new == detIn.new_price
               pct == detOut.price_change_pct
           IN /\ pct # NullPct
              /\ pct[2] # 0
              /\ pct[1] * old = (new - old) * 100 * pct[2]
              /\ detOut.exceeded_threshold
                     <=> Abs(new - old) * 100 * 100 >= detIn.threshold_pct * old
              /\ old = new => ~detOut.exceeded_threshold

\* C8 witness: a change of exactly the threshold was found to exceed it.
C8_Witness ==
    /\ detOut # NoDetection
    /\ detIn.old_price \notin {NULL, 0}
    /\ detIn.new_price \notin {NULL, detIn.old_price}
    /\ Abs(detIn.new_price - detIn.old_price) * 100 * 100
           = detIn.threshold_pct * detIn.old_price
    /\ detOut.exceeded_threshold

\* the webhook.deliver events enqueued for history record k
EventsFor(k) ==
    {i \in DOMAIN webhook_queue : webhook_queue[i].product_history_id = k}

\* C9: the first history record of a product has price_changed = false,
\* stock_changed = false and price_change_pct = null, and no webhook is
\* enqueued for it.
C9_FirstRecord ==
    \A k \in DOMAIN HistoryView :
        Predecessor(k) = 0
            => /\ ~HistoryView[k].price_changed
               /\ ~HistoryView[k].stock_changed
               /\ HistoryView[k].price_change_pct = <<>>
               /\ EventsFor(k) = {}

\* C9 witness: the first record of a product differs in price and stock
\* from what the baseline crawl stored, on a website with webhooks on.
C9_Witness ==
    /\ history # <<>>
    /\ history[1].price = 4
    /\ history[1].stock_status = "out_of_stock"
    /\ websites[1].webhook_enabled
    /\ websites[1].webhook_endpoint_url = WebhookEndpoint
    /\ websites[1].last_crawl_status = "success"

ExceedsThreshold(old_price, new_price, threshold_pct) ==
    /\ old_price # new_price
    /\ \/ old_price \in {NULL, 0}
       \/ new_price = NULL
       \/ Abs(new_price - old_price) * 100 * 100 >= threshold_pct * old_price

\* C11: a webhook.deliver event is enqueued for a history record only if the
\* website, as the job loaded it, has webhook_enabled and an endpoint URL,
\* and the record differs from its predecessor in stock status or in price
\* by at least the threshold; a price change below the threshold with
\* unchanged stock enqueues nothing.
C11_WebhookGating ==
    [][\A i \in DOMAIN webhook_queue' :
          i \notin DOMAIN webhook_queue
              => LET k   == webhook_queue'[i].product_history_id
                     rec == HistoryView'[k]
                     p   == get_latest_history_record(rec.product_id, HistoryView)
                 IN /\ k = Len(HistoryView) + 1
                    /\ job.website.webhook_enabled
                    /\ job.website.webhook_endpoint_url # NoUrl
                    /\ p # 0
                    /\ \/ rec.stock_status # HistoryView[p].stock_status
                       \/ ExceedsThreshold(HistoryView[p].price, rec.price,
                                           job.website.price_change_threshold_pct)
      ]_vars

\* C11 witness: on a website with webhooks on, a record whose price changed
\* by less than the threshold and whose stock did not change has no event.
C11_Witness ==
    \E k \in DOMAIN history :
        /\ Predecessor(k) # 0
        /\ history[k].price_changed
        /\ ~history[k].stock_changed
        /\ history[k].price \notin {NULL, 0}
        /\ history[Predecessor(k)].price \notin {NULL, 0}
        /\ websites[history[k].website_id].webhook_enabled
        /\ websites[history[k].website_id].webhook_endpoint_url # NoUrl
        /\ websites[history[k].website_id].price_change_threshold_pct = 2500
        /\ EventsFor(k) = {}
        /\ crawl_logs[history[k].crawl_log_id].changes_detected = 1


\* C12: when a scheduled crawl of a website with webhooks enabled and an
\* endpoint URL reads a stock status that differs from the one in the
\* product's latest history record, the new record has stock_changed = true
\* and exactly one product.stock_changed webhook is enqueued for it,
\* whatever the price did.
C12_StockWebhook ==
    [][(job.pc = "products" /\ job'.pc = "products"
            /\ Len(job'.new_history) = Len(job.new_history) + 1)
        => LET k   == Len(HistoryView')
               rec == HistoryView'[k]
               p   == get_latest_history_record(rec.product_id, HistoryView)
           IN (/\ job.website.webhook_enabled
               /\ job.website.webhook_endpoint_url # NoUrl
               /\ p # 0
               /\ rec.stock_status # HistoryView[p].stock_status)
              => /\ rec.stock_changed
                 /\ Cardinality({i \in DOMAIN webhook_queue' :
                        /\ webhook_queue'[i].product_history_id = k
                        /\ webhook_queue'[i].event_type = "product.stock_changed"}) = 1
      ]_vars


\* C13: at most one webhook delivery is enqueued for a history record; its
\* payload carries event_id = product_history_id, and every attempt of the
\* delivery posts that same payload and logs that same product_history_id.
C13_OneDeliveryPerRecord ==
    /\ \A k \in DOMAIN HistoryView : Cardinality(EventsFor(k)) <= 1
    /\ \A i \in DOMAIN webhook_queue :
          /\ webhook_queue[i].product_history_id \in DOMAIN HistoryView
          /\ webhook_queue[i].payload.event_id = webhook_queue[i].product_history_id
    /\ \A r \in DOMAIN webhook_logs :
          /\ webhook_logs[r].payload.event_id = webhook_logs[r].product_history_id
          /\ \E i \in DOMAIN webhook_queue :
                /\ webhook_queue[i].product_history_id = webhook_logs[r].product_history_id
                /\ webhook_queue[i].payload = webhook_logs[r].payload

\* C13 witness: the event of a history record was posted three times.
C13_Witness ==
    \E i \in DOMAIN webhook_queue :
        LET rows == RowsOf(webhook_queue[i].product_history_id)
        IN /\ Len(rows) = 3
           /\ rows[1].payload = rows[3].payload
           /\ webhook_queue[i].event_type = "product.stock_changed"
           /\ history # <<>>

\* C14: a header produced by signing a body with a secret at time t verifies
\* for the same body and secret exactly when the receiver's clock (whole
\* seconds) is at most 300 s away from t, in either direction; a header
\* whose t is further away is rejected with the timestamp error, whatever
\* body and secret the receiver checks it against.
C14_SignVerifyRoundTrip ==
    (sigOut # NoSigning /\ sigOut.op = "verify_signature") =>
        LET t == sigIn.timestamp
            current == IntTime(sigIn.clock)
            inside == Abs(current - t) <= 300
            result == sigOut.result
        IN  /\ HeaderPart(SignedHeader, "t") = <<t>>
            /\ (sigIn.received = sigIn.payload
                    /\ sigIn.current_secret = sigIn.webhook_secret)
                => (result.is_valid <=> inside)
            /\ ~inside => (~result.is_valid /\ result.error = "timestamp")
            /\ (inside /\ (sigIn.received # sigIn.payload
                              \/ sigIn.current_secret # sigIn.webhook_secret))
                => (~result.is_valid /\ result.error = "signature")

C14_Witness ==
    /\ sigOut # NoSigning
    /\ sigOut.op = "verify_signature"
    /\ sigOut.result.is_valid
    /\ sigIn.received = sigIn.payload
    /\ Abs(IntTime(sigIn.clock) - sigIn.timestamp) = 300


\* C15: for a body signed inside the replay window, verification under
\* (current, previous) succeeds exactly when the signing secret is the
\* current one, or there is a previous secret and it is the signing secret;
\* so a body signed with the previous secret verifies exactly when previous
\* is non-null, and with no previous secret only the current secret's
\* signature verifies. The current secret is tried first: its signature
\* verifies at the first clock reading whatever the previous secret is.
C15_Rotation ==
    (sigOut # NoSigning /\ sigOut.op = "verify_signature_with_rotation") =>
        LET t == sigIn.timestamp
            signed_with == sigIn.webhook_secret
            insideFirst == Abs(IntTime(sigIn.clock) - t) <= 300
            insideSecond == Abs(IntTime(sigIn.clock + sigIn.lag) - t) <= 300
            result == sigOut.result
        IN  /\ (sigIn.received = sigIn.payload /\ insideFirst /\ insideSecond)
                => (result.is_valid <=>
                        \/ signed_with = sigIn.current_secret
                        \/ /\ sigIn.previous_secret # NoSecret
                           /\ signed_with = sigIn.previous_secret)
            /\ (sigIn.received = sigIn.payload /\ insideFirst
                    /\ signed_with = sigIn.current_secret)
                => result.is_valid
            /\ (sigIn.previous_secret = NoSecret /\ result.is_valid)
                => signed_with = sigIn.current_secret

C15_Witness ==
    /\ sigOut # NoSigning
    /\ sigOut.op = "verify_signature_with_rotation"
    /\ sigIn.webhook_secret = sigIn.previous_secret
    /\ sigIn.webhook_secret # sigIn.current_secret
    /\ sigOut.result.is_valid


C17_RateLimit ==
    [][\A f \in FetchIds :
          (fetches[f].pc # "get" /\ fetches'[f].pc = "get") =>
              LET previous == domain_last_request[fetches'[f].domain]
              IN  previous # NULL =>
                      (now - previous) * CRAWL_RATE_LIMIT_PER_DOMAIN >= 60]_vars


\* C18: when the GET of a fetch is answered with a status 4xx, the fetch
\* ends there with CrawlError: it does not sleep for a retry and issues no
\* further request, so a fetch answered 4xx at once has made one request.
C18_ClientErrorNotRetried ==
    [][\A f \in FetchIds :
          (/\ fetches[f].pc = "get"
           /\ fetches'[f].pc # "get"
           /\ fetches'[f].status_code \in 400..499)
          => /\ fetches'[f].pc = "raised"
             /\ fetches'[f].retry_count = 0 => fetches'[f].requests = 1]_vars


\* C19: a fetch never makes more than CRAWL_RETRY_ATTEMPTS retries, that is
\* 1 + CRAWL_RETRY_ATTEMPTS requests; a GET that fails (network error,
\* timeout, status 5xx) with k retries made is followed, if k is below
\* CRAWL_RETRY_ATTEMPTS, by a sleep of CRAWL_RETRY_BACKOFF_BASE * 2^k seconds
\* that retry k+1 does not start before, and otherwise by CrawlError; and
\* every fetch whose request is out comes to an end.
C19_BoundedRetries ==
    /\ [](\A f \in FetchIds :
            /\ fetches[f].retry_count <= CRAWL_RETRY_ATTEMPTS
            /\ fetches[f].requests <= 1 + fetches[f].retry_count)
    /\ [][\A f \in FetchIds :
            LET k == fetches[f].retry_count
                failed == /\ fetches[f].pc = "get"
                          /\ fetches'[f].pc # "get"
                          /\ \/ fetches'[f].status_code = NULL
                             \/ fetches'[f].status_code \in 500..599
            IN  /\ (failed /\ k < CRAWL_RETRY_ATTEMPTS) =>
                      /\ fetches'[f].pc = "backoff"
                      /\ fetches'[f].wake_at = now + CRAWL_RETRY_BACKOFF_BASE * 2 ^ k
                /\ (failed /\ k >= CRAWL_RETRY_ATTEMPTS) =>
                      /\ fetches'[f].pc = "raised"
                      /\ fetches'[f].requests = 1 + CRAWL_RETRY_ATTEMPTS
                /\ (fetches[f].pc = "backoff" /\ fetches'[f].pc # "backoff") =>
                      /\ now >= fetches[f].wake_at
                      /\ fetches'[f].retry_count = k + 1]_vars
    /\ \A f \in FetchIds :
          (fetches[f].pc = "get") ~> (fetches[f].pc \in {"returned", "raised"})

C19_Witness ==
    \E f \in FetchIds :
        /\ fetches[f].pc = "raised"
        /\ fetches[f].status_code \in {NULL, 503}
        /\ fetches[f].retry_count = CRAWL_RETRY_ATTEMPTS
        /\ fetches[f].requests = 1 + CRAWL_RETRY_ATTEMPTS
        /\ now >= CRAWL_RETRY_BACKOFF_BASE * (1 + 2 + 4)


\* C20: a website job starts with the website's active products, each once;
\* every pass of its loop takes the first product left and leaves the job
\* running with the others, in their order, whether the product was stored
\* or failed; a failure adds one to errors_count and one entry, naming the
\* product, to error_details, and nothing else does; no product is attempted
\* twice, and the job ends only when no product is left, with its counters
\* written to the crawl log.
C20_ProductFailureIsolated ==
    /\ [][(job.pc = "idle" /\ job'.pc = "products") =>
            /\ job'.todo = ActiveProducts(job'.website_id)
            /\ \A a, b \in DOMAIN job'.todo :
                  job'.todo[a] = job'.todo[b] => a = b
            /\ job'.errors_count = 0
            /\ job'.error_details = <<>>]_vars
    /\ [][(job.pc = "products" /\ job'.pc = "products" /\ job' # job) =>
            /\ job.todo # <<>>
            /\ job'.todo = Tail(job.todo)
            /\ job'.crawl_log_id = job.crawl_log_id
            /\ \/ /\ job'.products_processed = job.products_processed + 1
                  /\ job'.errors_count = job.errors_count
                  /\ job'.error_details = job.error_details
               \/ /\ job'.products_processed = job.products_processed
                  /\ job'.errors_count = job.errors_count + 1
                  /\ Len(job'.error_details) = Len(job.error_details) + 1
                  /\ SubSeq(job'.error_details, 1, Len(job.error_details))
                         = job.error_details
                  /\ job'.error_details[Len(job'.error_details)].product_id
                         = Head(job.todo)]_vars
    /\ [][(job.pc = "products" /\ job'.pc = "idle") =>
            /\ job.todo = <<>>
            /\ crawl_logs'[job.crawl_log_id].completed
            /\ crawl_logs'[job.crawl_log_id].errors_count = job.errors_count
            /\ crawl_logs'[job.crawl_log_id].error_details = job.error_details
            /\ crawl_logs'[job.crawl_log_id].products_processed
                   = job.products_processed]_vars
    /\ [](job.pc = "products" =>
            /\ job.errors_count = Len(job.error_details)
            /\ \A a, b \in DOMAIN job.error_details :
                  job.error_details[a].product_id = job.error_details[b].product_id
                      => a = b
            /\ \A a \in DOMAIN job.error_details, b \in DOMAIN job.todo :
                  job.error_details[a].product_id # job.todo[b]
            /\ \A a \in DOMAIN job.new_history, b \in DOMAIN job.todo :
                  job.new_history[a].product_id # job.todo[b]
            /\ \A a, b \in DOMAIN job.new_history :
                  job.new_history[a].product_id = job.new_history[b].product_id
                      => a = b)

C20_Witness ==
    /\ job.pc = "products"
    /\ job.todo = <<>>
    /\ job.errors_count = 1
    /\ job.products_processed = 1
    /\ Len(job.error_details) = 1
    /\ \E a \in DOMAIN job.new_history :
          job.new_history[a].product_id > job.error_details[1].product_id


\* C21: a tick takes the list of all websites that are active when it
\* fetches; the list only loses its first website, and it loses it to the
\* start of that website's job, never to the end of another job, whether
\* that job ended normally or with an unexpected error; and every website
\* in the list gets its turn.
C21_TickContinues ==
    /\ [][(tick = <<>> /\ tick' # <<>>) =>
            tick' = SortedSeq({w \in DOMAIN websites :
                                  websites[w].status = "active"})]_vars
    /\ [][(tick # <<>> /\ tick' # tick) =>
            /\ tick' = Tail(tick)
            /\ job.pc = "idle"
            /\ job'.pc = "products" => job'.website_id = Head(tick)]_vars
    /\ \A w \in TickWebsiteIds :
          (\E a \in DOMAIN tick : tick[a] = w)
              ~> (job.pc = "idle" /\ \A a \in DOMAIN tick : tick[a] # w)

C21_Witness ==
    /\ job.pc = "idle"
    /\ tick = <<>>
    /\ \E a, b \in DOMAIN crawl_logs :
          /\ a < b
          /\ crawl_logs[a].triggered_by = "scheduled"
          /\ crawl_logs[a].website_id = 1
          /\ ~crawl_logs[a].completed
          /\ crawl_logs[b].triggered_by = "scheduled"
          /\ crawl_logs[b].website_id = 2
          /\ crawl_logs[b].completed


\* C22: whenever no website job is running, every product that has history
\* shows the price and the stock status of its latest history record: the
\* update of the product and the insert of the record were committed
\* together or not at all.
C22_ProductMatchesHistory ==
    job.pc = "idle" =>
        \A k \in DOMAIN products :
            LET h == get_latest_history_record(k, history)
            IN  h # 0 =>
                    /\ products[k].current_price = history[h].price
                    /\ products[k].current_stock_status = history[h].stock_status


C24_UrlFailureIsolated ==
    [][\A w \in WebsiteIds, urlset \in SUBSET Urls :
          \A outcomes \in [urlset -> BaselineOutcomes] :
             BaselineCrawl(w, urlset, outcomes) =>
                /\ crawl_logs'[Len(crawl_logs')].status
                       \in {"success", "partial_success"}
                /\ \A u \in urlset :
                      (/\ outcomes[u].kind = "ok"
                       /\ ~ \E k \in DOMAIN products :
                              /\ products[k].website_id = w
                              /\ products[k].original_url = u)
                      => \E k \in DOMAIN products' :
                            /\ k \notin DOMAIN products
                            /\ products'[k].website_id = w
                            /\ products'[k].original_url = u]_vars


\* C25: a baseline crawl that completes leaves its website active, with
\* approved_product_count equal to the number of products the run created
\* and last_crawl_status equal to the final status of the run's log
\* (success when no URL failed, partial_success otherwise).
C25_BaselineCompletion ==
    [][\A w \in WebsiteIds, urlset \in SUBSET Urls :
          \A outcomes \in [urlset -> BaselineOutcomes] :
             LET log == crawl_logs'[Len(crawl_logs')]
             IN  (BaselineCrawl(w, urlset, outcomes) /\ log.status # "failed") =>
                    /\ log.status =
                          IF \A u \in urlset : outcomes[u].kind = "ok"
                          THEN "success" ELSE "partial_success"
                    /\ websites'[w].status = "active"
                    /\ websites'[w].approved_product_count
                          = Len(products') - Len(products)
                    /\ websites'[w].last_crawl_status = log.status]_vars


\* C26: once a scheduled crawl in which a product's URL was not found (the
\* CrawlError of a 404, recorded in the error details of the crawl's log)
\* is finished, the product is inactive with delisted_at set, and no later
\* scheduled crawl has it in its product list.
C26_NotFoundDelisted ==
    /\ [](job.pc = "idle" =>
            \A k \in DOMAIN crawl_logs :
               crawl_logs[k].triggered_by = "scheduled" =>
                  \A e \in DOMAIN crawl_logs[k].error_details :
                     LET p == products[crawl_logs[k].error_details[e].product_id]
                     IN  ~p.is_active /\ p.delisted_at # NULL)
    /\ [][(job.pc = "idle" /\ job'.pc = "products") =>
            \A t \in DOMAIN job'.todo :
               ~ \E k \in DOMAIN crawl_logs :
                    /\ crawl_logs[k].triggered_by = "scheduled"
                    /\ \E e \in DOMAIN crawl_logs[k].error_details :
                          crawl_logs[k].error_details[e].product_id = job'.todo[t]]_vars


\* C27: whatever was approved and crawled so far, a website owns at most
\* 100 products, no two of them have the same normalized_url, and its
\* approved_product_count is the number of products it owns.
C27_ProductLimits ==
    \A w \in DOMAIN websites :
        LET owned == {k \in DOMAIN products : products[k].website_id = w}
        IN  /\ Cardinality(owned) <= APPROVAL_LIMIT
            /\ \A a, b \in owned :
                  a # b => products[a].normalized_url # products[b].normalized_url
            /\ websites[w].approved_product_count = Cardinality(owned)


\* C28: discovery returns at most max_products candidates, and no two of
\* them have the same URL once query strings are set aside, also when a
\* product is linked from both seed pages or with different query strings.
C28_DiscoveryDeduplicated ==
    disOut # NoDiscovery =>
        /\ Len(disOut.candidates) <= disIn.max_products
        /\ \A i, j \in DOMAIN disOut.candidates :
              i # j =>
                 clean_url_for_comparison(disOut.candidates[i].url)
                     # clean_url_for_comparison(disOut.candidates[j].url)

\* Both seed pages link the same product, once with a query string, before
\* another product; the result holds max_products candidates.
C28_Witness ==
    /\ disOut # NoDiscovery
    /\ disIn.max_products = 2
    /\ Len(disOut.candidates) = 2
    /\ \E a \in DOMAIN disIn.seeds[1].links, b \in DOMAIN disIn.seeds[2].links :
          /\ disIn.seeds[1].links[a] # disIn.seeds[2].links[b]
          /\ disIn.seeds[1].links[a].query # disIn.seeds[2].links[b].query
          /\ clean_url_for_comparison(disIn.seeds[1].links[a])
                = clean_url_for_comparison(disIn.seeds[2].links[b])
          /\ disOut.candidates[1].url = disIn.seeds[1].links[a]


\* C29: the candidates discovery returns are in descending order of
\* relevance_score, every score lies in [0, 1] (0..10 tenths), and they are
\* the max_products best of all the qualifying, deduplicated links of the
\* seed pages: as many as max_products allows, and none that was left out
\* scores higher than one that was returned.
C29_RankedTopCandidates ==
    disOut # NoDiscovery =>
        LET c   == disOut.candidates
            all == discover_products(disIn.base_url, disIn.seeds,
                       Len(disIn.seeds[1].links) + Len(disIn.seeds[2].links))
        IN  /\ \A i \in 1..(Len(c) - 1) :
                  c[i].relevance_score >= c[i + 1].relevance_score
            /\ \A i \in DOMAIN c : c[i].relevance_score \in 0..10
            /\ Len(c) = IF Len(all) < disIn.max_products
                        THEN Len(all) ELSE disIn.max_products
            /\ \A i \in DOMAIN c, j \in DOMAIN all :
                  (\A k \in DOMAIN c :
                      clean_url_for_comparison(c[k].url)
                          # clean_url_for_comparison(all[j].url))
                  => c[i].relevance_score >= all[j].relevance_score


\* C30: in production every website's webhook_endpoint_url, if it has one,
\* is an https URL, after registration and after any update, and every
\* webhook enqueued has an https target.
C30_HttpsEndpointsOnly ==
    /\ \A w \in DOMAIN websites :
          websites[w].webhook_endpoint_url \in {NoUrl, WebhookEndpoint}
    /\ \A i \in DOMAIN webhook_queue :
          webhook_queue[i].target_url = WebhookEndpoint


\* C31: a scheduler tick that starts after secret_rotation_expires_at has
\* passed leaves the client without a previous secret, so that a signature
\* made with the secret that was replaced no longer verifies against the
\* secrets the client has stored.
C31_GraceExpiry ==
    [][(/\ tick = <<>>
        /\ tick' # <<>>
        /\ client.secret_rotation_expires_at # NULL
        /\ now > client.secret_rotation_expires_at)
       => /\ client'.webhook_secret_previous = NoSecret
          /\ ~verify_signature_with_rotation(
                 "{\"event_id\":1}",
                 generate_signature("{\"event_id\":1}",
                                    client.webhook_secret_current - 1,
                                    NULL, 2 * now).signature_header,
                 client'.webhook_secret_current,
                 client'.webhook_secret_previous,
                 2 * now, 0).is_valid]_vars


\* the number of times a parameter is written in a query
ParamCount(param, query) == Len(SelectSeq(query, LAMBDA p : p = param))

\* Two URLs that differ only in their tracking parameters or in the order of
\* their query parameters.
DifferOnlyInTrackingOrOrder(a, b) ==
    /\ a.scheme = b.scheme
    /\ a.netloc = b.netloc
    /\ a.path = b.path
    /\ a.fragment = b.fragment
    /\ \A param \in {"id", "color", "UTM_Source"} \X {"1", "2"} :
           ParamCount(param, a.query) = ParamCount(param, b.query)

\* C32: normalize_url is idempotent, and two URLs that differ only in
\* tracking parameters or in the order of the query parameters have the same
\* normalized URL.
C32_NormalizeCanonical ==
    urlOut # NoUrlResult =>
        /\ NormalizeUrl(urlOut) = urlOut
        /\ \A other \in NormalizeInputs :
               DifferOnlyInTrackingOrOrder(urlIn, other) => NormalizeUrl(other) = urlOut

C32_Witness ==
    /\ urlIn = Url("HTTPS", "Shop.Example", "/p/1",
                   <<<<"utm_source", "1">>, <<"id", "1">>>>, "reviews")
    /\ urlOut = Url("https", "shop.example", "/p/1", <<<<"id", "1">>>>, "")
    /\ \E other \in NormalizeInputs :
           /\ other.query = <<<<"id", "1">>, <<"utm_source", "2">>>>
           /\ DifferOnlyInTrackingOrOrder(urlIn, other)


\* C33: when a scheduled crawl records a price that went from null to a value
\* or from a value to null, the new history record has price_changed = true
\* and no price_change_pct, the product is counted in products_processed and
\* not in errors_count, and, for a website with webhooks enabled and an
\* endpoint URL, a product.price_changed webhook is enqueued for the record.
C33_NullPriceTransition ==
    [][(job.pc = "products" /\ job'.pc = "products"
            /\ Len(job'.new_history) = Len(job.new_history) + 1)
        => LET k   == Len(HistoryView')
               rec == HistoryView'[k]
               p   == get_latest_history_record(rec.product_id, HistoryView)
           IN (/\ p # 0
               /\ (rec.price = NULL) # (HistoryView[p].price = NULL))
              => /\ rec.price_changed
                 /\ rec.price_change_pct = StoredPct(NullPct)
                 /\ job'.products_processed = job.products_processed + 1
                 /\ job'.errors_count = job.errors_count
                 /\ (job.website.webhook_enabled /\ job.website.webhook_endpoint_url # NoUrl)
                        => \E i \in DOMAIN webhook_queue' :
                               /\ webhook_queue'[i].product_history_id = k
                               /\ webhook_queue'[i].event_type = "product.price_changed"
      ]_vars


C35_DeliveryLogRows ==
    /\ [](\A r \in DOMAIN webhook_logs :
             /\ webhook_logs[r].status \in {"success", "retrying", "exhausted"}
             /\ (webhook_logs[r].next_retry_at # NULL)
                    <=> (webhook_logs[r].status = "retrying"))
    /\ [][\A i \in DOMAIN delivery, outcome \in HttpOutcomes :
             DeliverFinish(i, outcome)
                 => /\ Len(webhook_logs') = Len(webhook_logs) + 1
                    /\ (webhook_logs'[Len(webhook_logs')].http_status_code = NULL)
                           <=> (outcome.kind # "response")]_vars

C35_Witness ==
    /\ Len(webhook_logs) = MAX_ATTEMPTS
    /\ webhook_logs[1].status = "retrying"
    /\ webhook_logs[1].http_status_code = 503
    /\ webhook_logs[1].next_retry_at # NULL
    /\ webhook_logs[MAX_ATTEMPTS].status = "exhausted"
    /\ webhook_logs[MAX_ATTEMPTS].http_status_code = NULL
    /\ webhook_logs[MAX_ATTEMPTS].next_retry_at = NULL


\* C36: every attempt is signed when it is sent: the t of its header is the
\* time at which the attempt is made, not the time of an earlier attempt, and
\* its X-Obsrv-Delivery-ID was not used before; a receiver that verifies the
\* request when it arrives, within TOLERANCE_WINDOW, accepts it, for the
\* attempts 2 and 3 as for attempt 1.
C36_SignedWhenSent ==
    /\ [][\A i \in DOMAIN delivery :
             DeliverSend(i)
                 => /\ delivery'[i].sent_at = now
                    /\ \A r \in DOMAIN webhook_logs :
                           /\ webhook_logs[r].id # delivery'[i].delivery_id
                           /\ webhook_logs[r].delivery_timestamp <= delivery'[i].sent_at
                    /\ \A j \in DOMAIN delivery :
                           delivery[j].pc = "posting"
                               => delivery[j].delivery_id # delivery'[i].delivery_id]_vars
    /\ [](\A i \in DOMAIN delivery :
             delivery[i].pc = "posting"
                 => LET ev == webhook_queue[i]
                        signed == generate_signature(ev.payload, ev.webhook_secret,
                                                     NULL, 2 * delivery[i].sent_at)
                    IN /\ HeaderPart(signed.signature_header, "t") = <<delivery[i].sent_at>>
                       /\ verify_signature(ev.payload, signed.signature_header,
                                           ev.webhook_secret, 2 * now).is_valid)
    /\ [](\A r \in DOMAIN webhook_logs :
             /\ HeaderPart(webhook_logs[r].signature, "t") = <<webhook_logs[r].timestamp_header>>
             /\ webhook_logs[r].timestamp_header <= webhook_logs[r].delivery_timestamp
             /\ webhook_logs[r].delivery_timestamp
                    <= webhook_logs[r].timestamp_header + TOLERANCE_WINDOW)

C36_Witness ==
    /\ Len(webhook_logs) = MAX_ATTEMPTS - 1
    /\ webhook_logs[2].timestamp_header > webhook_logs[1].delivery_timestamp
    /\ \E i \in DOMAIN delivery :
          /\ delivery[i].pc = "posting"
          /\ delivery[i].attempt_number = MAX_ATTEMPTS
          /\ delivery[i].sent_at > webhook_logs[2].delivery_timestamp
          /\ now > delivery[i].sent_at


C38_JobCounters ==
    /\ [][job'.pc = "products"
            => IF job.pc = "idle"
               THEN /\ job'.todo = ActiveProducts(job'.website_id)
                    /\ job'.products_processed + job'.errors_count = 0
               ELSE job'.products_processed + job'.errors_count + Len(job'.todo)
                        = job.products_processed + job.errors_count + Len(job.todo)]_vars
    /\ [][(job.pc = "products" /\ job'.pc = "idle"
               /\ crawl_logs'[job.crawl_log_id].completed)
            => LET log == crawl_logs'[job.crawl_log_id]
               IN /\ job.todo = <<>>
                  /\ log.products_processed = job.products_processed
                  /\ log.errors_count = job.errors_count
                  /\ log.products_processed =
                         Cardinality({k \in DOMAIN history' :
                                         history'[k].crawl_log_id = job.crawl_log_id})]_vars


\* C39: the changes_detected of a closed scheduled crawl log is the number of
\* history records of that job with price_changed or stock_changed, whether
\* or not the website has webhooks enabled and an endpoint URL.
C39_ChangesDetected ==
    [][(job.pc = "products" /\ job'.pc = "idle"
            /\ crawl_logs'[job.crawl_log_id].completed)
        => crawl_logs'[job.crawl_log_id].changes_detected =
               Cardinality({k \in DOMAIN history' :
                               /\ history'[k].crawl_log_id = job.crawl_log_id
                               /\ \/ history'[k].price_changed
                                  \/ history'[k].stock_changed})]_vars


\* C40: every crawl log that a scheduled or a baseline crawl opened with
\* status running eventually has a terminal status and completed_at set,
\* also when the job ends with an unexpected error.
C40_LogsReachTerminalStatus ==
    \A k \in 1..(MaxRequests + MaxChangeCrawls) :
        (k \in DOMAIN crawl_logs /\ crawl_logs[k].status = "running")
            ~> /\ k \in DOMAIN crawl_logs
               /\ crawl_logs[k].status \in {"success", "partial_success", "failed"}
               /\ crawl_logs[k].completed


====
